---- MODULE Spec2Model ----
(***************************************************************************)
(* Model of the production traceability core of cec_web_trial_v4/app.py:   *)
(* the batch stage state machine (update_batch_stage), the transfer ledger *)
(* (create_next_process_label / receive_next_process_label) and the /scan  *)
(* and /batches request handlers that drive them.                          *)
(*                                                                         *)
(* Tables are sequences; a row's id is its position (AUTOINCREMENT, no row *)
(* is ever deleted).  Quantities are integers in units of 0.001 kg, so     *)
(* that round(x, 2) is a real conversion (to a multiple of 10 units).      *)
(* A nullable column holds <<>> for NULL and <<v>> for the value v.        *)
(* Request fields are already-decoded values: float()/int() parsing of the *)
(* form text is not modelled.  Foreign keys are taken to resolve (a        *)
(* batch's job exists), as the /batches form offers existing jobs only.    *)
(*                                                                         *)
(* Spec and SpecRepeat run each request to its end before the next one     *)
(* starts.  execute() commits after every statement, and SpecSteps takes   *)
(* one step per commit: pending holds the request that is between two of   *)
(* its commits (<<>> when there is none).                                  *)
(* SpecRace runs receive requests concurrently, one step per statement:    *)
(* there pending holds one record per request, finished ones included.     *)
(***************************************************************************)
EXTENDS Integers, Sequences, FiniteSets, TLC

VARIABLES batches, logs, labels, items, jobs, planner, events, resp, pending

vars == <<batches, logs, labels, items, jobs, planner, events, resp, pending>>

(* ------------------------------------------------------------------ *)
(* Program constants                                                   *)
(* ------------------------------------------------------------------ *)

PROCESS_FLOW ==
    <<"MIXING", "EXTRUDER", "VULCANISING", "CUTTING", "FINISHING", "PACKING", "STORE_RECEIVING">>

NEXT_ACTIONS == {"MOVE_NEXT", "REJECTED", "REWORK"}

NULL == <<>>

Some(v) == <<v>>

(* process_name in PROCESS_FLOW *)
InFlow(p) == \E i \in 1..Len(PROCESS_FLOW) : PROCESS_FLOW[i] = p

(* PROCESS_FLOW.index(p), 0-based as in the source *)
FlowIndex(p) == (CHOOSE i \in 1..Len(PROCESS_FLOW) : PROCESS_FLOW[i] = p) - 1

(* PROCESS_FLOW[i] for a 0-based i *)
FlowAt(i) == PROCESS_FLOW[i + 1]

FlowSet == {PROCESS_FLOW[i] : i \in 1..Len(PROCESS_FLOW)}

(* s[:3] for the stage names *)
Prefix3(s) ==
    CASE s = "MIXING" -> "MIX"
      [] s = "EXTRUDER" -> "EXT"
      [] s = "VULCANISING" -> "VUL"
      [] s = "CUTTING" -> "CUT"
      [] s = "FINISHING" -> "FIN"
      [] s = "PACKING" -> "PAC"
      [] s = "STORE_RECEIVING" -> "STO"
      [] OTHER -> s

(* round(x, 2) on a quantity in 0.001 kg units: the nearest multiple of 10. *)
(* Which way the source rounds an exact tie depends on the binary float    *)
(* nearest to x; the quantities below never differ by a tie, and the tie   *)
(* is written here as round-half-even.                                     *)
Round2(x) ==
    LET a == IF x < 0 THEN -x ELSE x
        q == a \div 10
        r == a % 10
        m == IF r > 5 \/ (r = 5 /\ q % 2 = 1) THEN (q + 1) * 10 ELSE q * 10
    IN IF x < 0 THEN -m ELSE m

Max0(x) == IF x > 0 THEN x ELSE 0

(* ------------------------------------------------------------------ *)
(* Bounds of the explored runs and the values the requests carry        *)
(* ------------------------------------------------------------------ *)

(* rows the requests may add to process_logs and batches on top of the seed rows *)
MaxNew == 1

(* time of the first start, when seed_demo_data stamps its scans: *)
(* minutes since 2026-02-28 00:00                                  *)
SeedNow == 600

DayMinutes == 24 * 60

(* datetime.now() / the scan_time field as the requests may carry it *)
Clock == {SeedNow + 1}

(* the %Y%m%d%H%M%S stamp and the %f microseconds read while issuing a label *)
Stamps == {1, 2}

Usecs == {0, 1}

(* good_qty_kg and received_qty_kg, in 0.001 kg: the values the requests   *)
(* of the explored runs carry, and the values every reachable state is     *)
(* probed with                                                             *)
GoodQtys == {1004}

RecvQtys == {0, 996, 1004, 2000}

AllGoodQtys == {-1000, 0, 4, 1000, 1004}

AllRecvQtys == {-1000, 0, 4, 996, 1000, 1004, 2000}

(* process_name / receiving_process of the explored requests *)
ScanProcesses == {"MIXING", "STORE_RECEIVING", "QC"}

ReceiveProcesses == {"MIXING", "EXTRUDER", "QC"}

AllProcesses == FlowSet \cup {"QC", "NOT_STARTED", "COMPLETED"}

ActionInputs == NEXT_ACTIONS \cup {"SCRAP"}

(* machine_id of the scan form: 0 for no machine selected, 1 is Mixer A-01 *)
MachineInputs == {0, 1}

BatchName(i) ==
    CASE i = 1 -> "BAT-0001"
      [] i = 2 -> "BAT-0002"
      [] i = 3 -> "BAT-0003"
      [] i = 4 -> "BAT-0004"
      [] OTHER -> "BAT-0005"

(* ------------------------------------------------------------------ *)
(* The store after init_db() on an empty database (seed_demo_data)     *)
(* ------------------------------------------------------------------ *)

(* customer_files.due_date of the two seeded files, as a date-only time *)
FileDue(f) == IF f = 1 THEN 5 * DayMinutes ELSE 7 * DayMinutes

(* created_at is CURRENT_TIMESTAMP of the INSERT *)
SeedItems ==
    << [file_id |-> 1, status |-> "JOB_CREATED", planned_job_id |-> Some(1), created_at |-> SeedNow],
       [file_id |-> 1, status |-> "PENDING_JOB", planned_job_id |-> NULL, created_at |-> SeedNow],
       [file_id |-> 2, status |-> "JOB_CREATED", planned_job_id |-> Some(2), created_at |-> SeedNow],
       [file_id |-> 2, status |-> "PENDING_JOB", planned_job_id |-> NULL, created_at |-> SeedNow] >>

SeedPlanner ==
    << [item_id |-> 1, planner_status |-> "IN_PRODUCTION", ready_at |-> Some(DayMinutes + 600), updated_at |-> 555],
       [item_id |-> 2, planner_status |-> "READY_FOR_PRODUCTION", ready_at |-> Some(2 * DayMinutes + 960), updated_at |-> 560],
       [item_id |-> 3, planner_status |-> "IN_PRODUCTION", ready_at |-> Some(DayMinutes + 360), updated_at |-> 565],
       [item_id |-> 4, planner_status |-> "WAITING_PLANNING", ready_at |-> Some(3 * DayMinutes + 540), updated_at |-> 570] >>

SeedJobs ==
    << [job_no |-> "JOB-0001", source_item_id |-> Some(1)],
       [job_no |-> "JOB-0002", source_item_id |-> Some(3)] >>

SeedBatches ==
    << [batch_no |-> "BAT-0001", job_id |-> 1, planned_input_kg |-> 500000,
        current_process |-> "VULCANISING", status |-> "OPEN", barcode_text |-> "BAT-0001"],
       [batch_no |-> "BAT-0002", job_id |-> 2, planned_input_kg |-> 350000,
        current_process |-> "CUTTING", status |-> "OPEN", barcode_text |-> "BAT-0002"] >>

SeedLog(b, p, i, g, r) ==
    [batch_id |-> b, process_name |-> p, scan_time |-> SeedNow, input_qty_kg |-> i,
     good_qty_kg |-> g, reject_qty_kg |-> r, next_action |-> "MOVE_NEXT"]

SeedLogs ==
    << SeedLog(1, "MIXING", 500000, 496000, 4000),
       SeedLog(1, "EXTRUDER", 496000, 492000, 4000),
       SeedLog(2, "MIXING", 350000, 348000, 2000),
       SeedLog(2, "EXTRUDER", 348000, 344000, 4000),
       SeedLog(2, "VULCANISING", 344000, 340000, 4000) >>

Event(i, t, ty, st, lbl) ==
    [item_id |-> i, event_time |-> t, event_type |-> ty, stage_name |-> st, status_label |-> lbl]

SeedEvents ==
    << Event(1, 480, "ORDER_LINE_CREATED", "ORDER", "WAITING_PLANNING"),
       Event(1, 555, "PLANNER_UPDATE", "PLANNING", "IN_PRODUCTION"),
       Event(2, 485, "ORDER_LINE_CREATED", "ORDER", "WAITING_PLANNING"),
       Event(2, 560, "PLANNER_UPDATE", "PLANNING", "READY_FOR_PRODUCTION"),
       Event(3, 490, "ORDER_LINE_CREATED", "ORDER", "WAITING_PLANNING"),
       Event(3, 565, "PLANNER_UPDATE", "PLANNING", "IN_PRODUCTION"),
       Event(4, 495, "ORDER_LINE_CREATED", "ORDER", "WAITING_PLANNING"),
       Event(4, 570, "PLANNER_UPDATE", "PLANNING", "WAITING_PLANNING"),
       Event(1, 575, "JOB_CREATED", "PLANNING", "JOB_CREATED"),
       Event(3, 580, "JOB_CREATED", "PLANNING", "JOB_CREATED"),
       Event(1, 585, "BATCH_CREATED", "MIXING", "READY_FOR_PRODUCTION"),
       Event(3, 590, "BATCH_CREATED", "MIXING", "READY_FOR_PRODUCTION"),
       Event(1, SeedNow, "PROCESS_SCAN", "MIXING", "IN_PRODUCTION"),
       Event(1, SeedNow, "PROCESS_SCAN", "EXTRUDER", "IN_PRODUCTION"),
       Event(3, SeedNow, "PROCESS_SCAN", "MIXING", "IN_PRODUCTION"),
       Event(3, SeedNow, "PROCESS_SCAN", "EXTRUDER", "IN_PRODUCTION"),
       Event(3, SeedNow, "PROCESS_SCAN", "VULCANISING", "IN_PRODUCTION") >>

(* process_name of the seeded machines row m; "" when the row does not exist *)
MachineProcess(m) ==
    CASE m \in {1, 2, 3} -> "MIXING"
      [] m \in {4, 5} -> "EXTRUDER"
      [] m = 6 -> "VULCANISING"
      [] m = 7 -> "CUTTING"
      [] m = 8 -> "FINISHING"
      [] m = 9 -> "PACKING"
      [] OTHER -> ""

Resp(op, ok, msg) == [op |-> op, ok |-> ok, msg |-> msg]

Init ==
    /\ batches = SeedBatches
    /\ logs = SeedLogs
    /\ labels = <<>>
    /\ items = SeedItems
    /\ jobs = SeedJobs
    /\ planner = SeedPlanner
    /\ events = SeedEvents
    /\ resp = Resp("init", TRUE, <<>>)
    /\ pending = NULL

(* ------------------------------------------------------------------ *)
(* Stage state machine                                                 *)
(* ------------------------------------------------------------------ *)

(* next_stage of update_batch_stage: the entry after process_name, or *)
(* COMPLETED for the last stage and for a name not in PROCESS_FLOW     *)
NextStage(process_name) ==
    IF InFlow(process_name) /\ FlowIndex(process_name) < Len(PROCESS_FLOW) - 1
    THEN FlowAt(FlowIndex(process_name) + 1)
    ELSE "COMPLETED"

(* update_batch_stage with status COMPLETED for every scan that is not REJECTED *)
update_batch_stage_always_completed(bs, batch_id, process_name, next_action) ==
    IF next_action = "REJECTED"
    THEN [bs EXCEPT ![batch_id].current_process = process_name,
                    ![batch_id].status = "HOLD"]
    ELSE [bs EXCEPT ![batch_id].current_process = NextStage(process_name),
                    ![batch_id].status = "COMPLETED"]

(* update_batch_stage with the status of a finished batch left OPEN *)
update_batch_stage_never_completes(bs, batch_id, process_name, next_action) ==
    IF next_action = "REJECTED"
    THEN [bs EXCEPT ![batch_id].current_process = process_name,
                    ![batch_id].status = "HOLD"]
    ELSE [bs EXCEPT ![batch_id].current_process = NextStage(process_name),
                    ![batch_id].status = "OPEN"]

(* update_batch_stage with the early return of the REJECTED branch lost: the *)
(* batch is put on HOLD and then advanced like any other scan               *)
update_batch_stage_reject_advances(bs, batch_id, process_name, next_action) ==
    LET next_stage == NextStage(process_name)
        status == IF next_action = "REJECTED" THEN "HOLD"
                  ELSE IF next_stage = "COMPLETED" THEN "COMPLETED" ELSE "OPEN"
    IN [bs EXCEPT ![batch_id].current_process = next_stage,
                  ![batch_id].status = status]

(* update_batch_stage on the batches table bs *)
update_batch_stage(bs, batch_id, process_name, next_action) ==
    IF next_action = "REJECTED"
    THEN [bs EXCEPT ![batch_id].current_process = process_name,
                    ![batch_id].status = "HOLD"]
    ELSE LET next_stage == NextStage(process_name)
             status == IF next_stage = "COMPLETED" THEN "COMPLETED" ELSE "OPEN"
         IN [bs EXCEPT ![batch_id].current_process = next_stage,
                       ![batch_id].status = status]

(* ------------------------------------------------------------------ *)
(* Transfer ledger                                                     *)
(* ------------------------------------------------------------------ *)

(* "NP-<batch_no>-<from[:3]>-<to[:3]>-<stamp>" *)
build_next_process_barcode(batch_no, from_process, to_process, stamp) ==
    <<"NP", batch_no, Prefix3(from_process), Prefix3(to_process), stamp>>

(* the UNIQUE constraint on next_process_labels.transfer_barcode *)
BarcodeTaken(ls, barcode) ==
    \E i \in 1..Len(ls) : ls[i].transfer_barcode = barcode

NewLabel(barcode, batch_id, from_process, to_process, issued_qty_kg) ==
    [transfer_barcode |-> barcode, batch_id |-> batch_id,
     from_process |-> from_process, to_process |-> to_process,
     issued_qty_kg |-> issued_qty_kg, received_qty_kg |-> NULL,
     qty_loss_kg |-> 0, status |-> "ISSUED", received_at |-> NULL]

(* create_next_process_label: the labels table after the call, the code *)
(* returned (NULL for None) and whether the second INSERT raised        *)
(* sqlite3.IntegrityError out of the function                           *)
create_next_process_label(ls, bs, batch_id, from_process, to_process, issued_qty_kg, stamp, usec) ==
    IF batch_id \notin 1..Len(bs)
    THEN [labels |-> ls, barcode |-> NULL, raised |-> FALSE]
    ELSE LET barcode == build_next_process_barcode(bs[batch_id].batch_no, from_process, to_process, stamp)
             retry == Append(barcode, usec)
         IN IF ~BarcodeTaken(ls, barcode)
            THEN [labels |-> Append(ls, NewLabel(barcode, batch_id, from_process, to_process, issued_qty_kg)),
                  barcode |-> Some(barcode), raised |-> FALSE]
            ELSE IF ~BarcodeTaken(ls, retry)
                 THEN [labels |-> Append(ls, NewLabel(retry, batch_id, from_process, to_process, issued_qty_kg)),
                       barcode |-> Some(retry), raised |-> FALSE]
                 ELSE [labels |-> ls, barcode |-> NULL, raised |-> TRUE]

(* SELECT * FROM next_process_labels WHERE transfer_barcode = ?: the row id, 0 for no row *)
FindLabel(ls, transfer_barcode) ==
    IF BarcodeTaken(ls, transfer_barcode)
    THEN CHOOSE i \in 1..Len(ls) :
            /\ ls[i].transfer_barcode = transfer_barcode
            /\ \A j \in 1..(i - 1) : ls[j].transfer_barcode # transfer_barcode
    ELSE 0

(* the messages of receive_next_process_label; a message is a tuple of its *)
(* fixed text and the values formatted into it                            *)
MsgNotFound == <<"Next process barcode not found.">>

MsgAlreadyReceived == <<"This next process barcode was already received.">>

MsgStageMismatch(to_process, receiving_process) ==
    <<"Barcode is for", to_process, "not", receiving_process>>

MsgReceived(received_qty_kg, qty_loss_kg) ==
    <<"Received", Round2(received_qty_kg), "KG (loss", Round2(qty_loss_kg), "KG).">>

(* receive_next_process_label without the status check *)
LabelIsIssuedUnchecked(label) == TRUE

(* label['status'] != 'ISSUED' is the refusal; this is its negation *)
LabelIsIssued(label) == label.status = "ISSUED"

(* receive_next_process_label without the to_process check *)
StageMatchesUnchecked(label, receiving_process) == TRUE

(* receiving_process != label['to_process'] is the refusal; this is its negation *)
StageMatches(label, receiving_process) == receiving_process = label.to_process

(* the loss with the received quantity left out of the difference *)
QtyLossOfIssued(issued_qty_kg, received_qty_kg) == Max0(Round2(issued_qty_kg))

(* the loss without the clamp at zero *)
QtyLossUnclamped(issued_qty_kg, received_qty_kg) == Round2(issued_qty_kg - received_qty_kg)

(* qty_loss_kg = max(0, round(issued - received, 2)) *)
QtyLoss(issued_qty_kg, received_qty_kg) == Max0(Round2(issued_qty_kg - received_qty_kg))

(* receive_next_process_label on the tables ls, bs: (ok, message) and the tables after *)
receive_next_process_label(ls, bs, transfer_barcode, receiving_process, received_qty_kg, now) ==
    LET id == FindLabel(ls, transfer_barcode)
    IN IF id = 0
       THEN [ok |-> FALSE, msg |-> MsgNotFound, labels |-> ls, batches |-> bs]
       ELSE IF ~LabelIsIssued(ls[id])
       THEN [ok |-> FALSE, msg |-> MsgAlreadyReceived, labels |-> ls, batches |-> bs]
       ELSE IF ~StageMatches(ls[id], receiving_process)
       THEN [ok |-> FALSE, msg |-> MsgStageMismatch(ls[id].to_process, receiving_process),
             labels |-> ls, batches |-> bs]
       ELSE [ok |-> TRUE,
             msg |-> MsgReceived(received_qty_kg, QtyLoss(ls[id].issued_qty_kg, received_qty_kg)),
             labels |-> [ls EXCEPT ![id].received_qty_kg = Some(received_qty_kg),
                                   ![id].qty_loss_kg = QtyLoss(ls[id].issued_qty_kg, received_qty_kg),
                                   ![id].status = "RECEIVED",
                                   ![id].received_at = Some(now)],
             batches |-> [bs EXCEPT ![ls[id].batch_id].current_process = receiving_process,
                                    ![ls[id].batch_id].status = "OPEN"]]

(* ------------------------------------------------------------------ *)
(* Request handlers                                                    *)
(* ------------------------------------------------------------------ *)

(* SELECT * FROM batches WHERE batch_no = ? OR barcode_text = ?: the first row's id, 0 for no row *)
FindBatch(bs, barcode_text) ==
    LET hit(i) == bs[i].batch_no = barcode_text \/ bs[i].barcode_text = barcode_text
    IN IF \E i \in 1..Len(bs) : hit(i)
       THEN CHOOSE i \in 1..Len(bs) : hit(i) /\ \A j \in 1..(i - 1) : ~hit(j)
       ELSE 0

(* the store as a request leaves it, with the response it flashes *)
Unchanged(op, msg) ==
    [batches |-> batches, logs |-> logs, labels |-> labels, items |-> items,
     jobs |-> jobs, planner |-> planner, events |-> events, resp |-> Resp(op, FALSE, msg)]

(* item_status without the COMPLETED branch *)
ScanItemStatusNeverCompleted(next_action, batch_after) ==
    IF next_action = "REJECTED" \/ batch_after.status = "HOLD" THEN "HOLD"
    ELSE "IN_PRODUCTION"

(* item_status of the scan handler, from next_action and the batch row re-read after the update *)
ScanItemStatus(next_action, batch_after) ==
    IF next_action = "REJECTED" \/ batch_after.status = "HOLD" THEN "HOLD"
    ELSE IF batch_after.status = "COMPLETED" THEN "COMPLETED"
    ELSE "IN_PRODUCTION"

(* the scan handler without the process_name check *)
ValidProcessUnchecked(process_name) == TRUE

(* process_name not in PROCESS_FLOW is the refusal; this is its negation *)
ValidProcess(process_name) == InFlow(process_name)

(* the scan handler without the next_action check *)
ValidActionUnchecked(next_action) == TRUE

(* next_action not in {MOVE_NEXT, REJECTED, REWORK} is the refusal; this is its negation *)
ValidAction(next_action) == next_action \in NEXT_ACTIONS

(* to_process with the stage after the next one *)
ScanToProcessSkipping(process_name) ==
    IF FlowIndex(process_name) + 2 < Len(PROCESS_FLOW)
    THEN FlowAt(FlowIndex(process_name) + 2)
    ELSE FlowAt(0)

(* to_process of the label a scan issues: PROCESS_FLOW[PROCESS_FLOW.index(process_name) + 1] *)
ScanToProcess(process_name) ==
    FlowAt(FlowIndex(process_name) + 1)

(* the condition under which the scan handler calls create_next_process_label *)
IssuesLabel(process_name, next_action) ==
    /\ next_action = "MOVE_NEXT"
    /\ InFlow(process_name)
    /\ process_name # PROCESS_FLOW[Len(PROCESS_FLOW)]

(* POST /scan with action_type = process_scan; stamp and usec are the two *)
(* clock readings of create_next_process_label                            *)
scan(barcode_text, process_name, next_action, input_qty_kg, good_qty_kg, reject_qty_kg, scan_time, machine_id, stamp, usec) ==
    LET bid == FindBatch(batches, barcode_text)
    IN IF bid = 0 THEN Unchanged("scan", <<"Batch/barcode not found.">>)
       ELSE IF ~ValidProcess(process_name) THEN Unchanged("scan", <<"Invalid process name.">>)
       ELSE IF ~ValidAction(next_action) THEN Unchanged("scan", <<"Invalid next action.">>)
       ELSE IF machine_id # 0 /\ MachineProcess(machine_id) = ""
       THEN Unchanged("scan", <<"Selected machine not found.">>)
       ELSE IF machine_id # 0 /\ MachineProcess(machine_id) # process_name
       THEN Unchanged("scan", <<"Selected machine does not belong to that process.">>)
       ELSE
         LET logs1 == Append(logs, [batch_id |-> bid, process_name |-> process_name,
                                    scan_time |-> scan_time, input_qty_kg |-> input_qty_kg,
                                    good_qty_kg |-> good_qty_kg, reject_qty_kg |-> reject_qty_kg,
                                    next_action |-> next_action])
             batches1 == update_batch_stage(batches, bid, process_name, next_action)
             issue == IF IssuesLabel(process_name, next_action)
                      THEN create_next_process_label(labels, batches1, bid, process_name,
                                                     ScanToProcess(process_name),
                                                     good_qty_kg, stamp, usec)
                      ELSE [labels |-> labels, barcode |-> NULL, raised |-> FALSE]
             linked == jobs[batches1[bid].job_id].source_item_id
             item_status == ScanItemStatus(next_action, batches1[bid])
             message == IF issue.barcode = NULL
                        THEN <<"Process scan recorded.">>
                        ELSE <<"Process scan recorded.", "Next process barcode issued:", issue.barcode[1]>>
         IN IF issue.raised
            THEN [batches |-> batches1, logs |-> logs1, labels |-> labels, items |-> items,
                  jobs |-> jobs, planner |-> planner, events |-> events,
                  resp |-> Resp("scan", FALSE, <<"sqlite3.IntegrityError">>)]
            ELSE IF linked = NULL
            THEN [batches |-> batches1, logs |-> logs1, labels |-> issue.labels, items |-> items,
                  jobs |-> jobs, planner |-> planner, events |-> events,
                  resp |-> Resp("scan", TRUE, message)]
            ELSE [batches |-> batches1, logs |-> logs1, labels |-> issue.labels,
                  items |-> [items EXCEPT ![linked[1]].status = item_status],
                  jobs |-> jobs, planner |-> planner,
                  events |-> Append(events, Event(linked[1], scan_time, "PROCESS_SCAN", process_name, item_status)),
                  resp |-> Resp("scan", TRUE, message)]

(* POST /scan with action_type = receive_next *)
receive_next(transfer_barcode, receiving_process, received_qty_kg, now) ==
    IF ~InFlow(receiving_process) THEN Unchanged("receive", <<"Invalid receiving process.">>)
    ELSE IF received_qty_kg <= 0 THEN Unchanged("receive", <<"Received quantity must be more than zero.">>)
    ELSE LET r == receive_next_process_label(labels, batches, transfer_barcode, receiving_process,
                                             received_qty_kg, now)
         IN [batches |-> r.batches, logs |-> logs, labels |-> r.labels, items |-> items,
             jobs |-> jobs, planner |-> planner, events |-> events,
             resp |-> Resp("receive", r.ok, r.msg)]

(* POST /batches *)
create_batch(batch_no, job_id, planned_input_kg, barcode_text, now) ==
    IF batch_no = "" \/ job_id = 0 \/ planned_input_kg <= 0
    THEN Unchanged("batches", <<"Please complete all required batch fields.">>)
    ELSE IF \E i \in 1..Len(batches) : batches[i].batch_no = batch_no
    THEN Unchanged("batches", <<"Batch number already exists.">>)
    ELSE LET row == [batch_no |-> batch_no, job_id |-> job_id, planned_input_kg |-> planned_input_kg,
                     current_process |-> "MIXING", status |-> "OPEN",
                     barcode_text |-> IF barcode_text = "" THEN batch_no ELSE barcode_text]
             linked == jobs[job_id].source_item_id
         IN IF linked = NULL
            THEN [batches |-> Append(batches, row), logs |-> logs, labels |-> labels, items |-> items,
                  jobs |-> jobs, planner |-> planner, events |-> events,
                  resp |-> Resp("batches", TRUE, <<"Batch created.">>)]
            ELSE [batches |-> Append(batches, row), logs |-> logs, labels |-> labels,
                  items |-> [items EXCEPT ![linked[1]].status = "READY_FOR_PRODUCTION"],
                  jobs |-> jobs, planner |-> planner,
                  events |-> Append(events, Event(linked[1], now, "BATCH_CREATED", "MIXING", "READY_FOR_PRODUCTION")),
                  resp |-> Resp("batches", TRUE, <<"Batch created.">>)]

Apply(r) ==
    /\ batches' = r.batches
    /\ logs' = r.logs
    /\ labels' = r.labels
    /\ items' = r.items
    /\ jobs' = r.jobs
    /\ planner' = r.planner
    /\ events' = r.events
    /\ resp' = r.resp
    /\ pending' = pending

BatchRefs == {batches[i].batch_no : i \in 1..Len(batches)} \cup {"BC-1"}

UnknownBarcode == <<"NP", "NOPE">>

TransferCodes == {labels[i].transfer_barcode : i \in 1..Len(labels)} \cup {UnknownBarcode}

(* rows added on top of the seed in a store r *)
Growth(r) == (Len(r.logs) - Len(SeedLogs)) + (Len(r.batches) - Len(SeedBatches))

(* the explored runs stop growing the store at MaxNew *)
Within(r) == Growth(r) <= MaxNew

Scan ==
    \E barcode_text \in BatchRefs, process_name \in ScanProcesses, next_action \in ActionInputs,
       good_qty_kg \in GoodQtys, scan_time \in Clock, machine_id \in MachineInputs :
       \E stamp \in (IF IssuesLabel(process_name, next_action) THEN Stamps ELSE {1}),
          usec \in (IF IssuesLabel(process_name, next_action) THEN Usecs ELSE {0}) :
          \E r \in {scan(barcode_text, process_name, next_action, 1004, good_qty_kg, 0,
                         scan_time, machine_id, stamp, usec)} :
             Within(r) /\ Apply(r)

ReceiveNext ==
    \E transfer_barcode \in TransferCodes, receiving_process \in ReceiveProcesses,
       received_qty_kg \in RecvQtys, now \in Clock :
       \E r \in {receive_next(transfer_barcode, receiving_process, received_qty_kg, now)} :
          Within(r) /\ Apply(r)

Batches ==
    \E batch_no \in {BatchName(1), BatchName(Len(batches) + 1)}, job_id \in 0..Len(jobs),
       barcode_text \in {"", "BC-1"}, now \in Clock :
       \E r \in {create_batch(batch_no, job_id, 500000, barcode_text, now)} :
          Within(r) /\ Apply(r)

Next == Scan \/ ReceiveNext \/ Batches

Spec == Init /\ [][Next]_vars

(* ------------------------------------------------------------------ *)
(* Repeated scans of one batch at one stage: the runs in which a batch  *)
(* on HOLD is scanned again and in which transfer codes collide         *)
(* ------------------------------------------------------------------ *)

(* process_logs rows the repeated scans may add *)
MaxRepeat == 3

RepeatScan ==
    \E next_action \in {"MOVE_NEXT", "REJECTED"}, scan_time \in Clock :
       \E stamp \in (IF IssuesLabel("MIXING", next_action) THEN Stamps ELSE {1}),
          usec \in (IF IssuesLabel("MIXING", next_action) THEN Usecs ELSE {0}) :
          \E r \in {scan(BatchName(1), "MIXING", next_action, 1004, 1004, 0, scan_time, 0, stamp, usec)} :
             Growth(r) <= MaxRepeat /\ Apply(r)

RepeatReceive ==
    \E transfer_barcode \in TransferCodes, received_qty_kg \in GoodQtys, now \in Clock :
       \E r \in {receive_next(transfer_barcode, "EXTRUDER", received_qty_kg, now)} :
          Apply(r)

NextRepeat == RepeatScan \/ RepeatReceive

SpecRepeat == Init /\ [][NextRepeat]_vars

(* ------------------------------------------------------------------ *)
(* The requests commit by commit: every execute() is its own           *)
(* transaction, so the store between two statements of a handler is     *)
(* what a concurrent reader sees and what a crash leaves behind         *)
(* ------------------------------------------------------------------ *)

(* job_no of the i-th job *)
JobName(i) ==
    CASE i = 1 -> "JOB-0001"
      [] i = 2 -> "JOB-0002"
      [] i = 3 -> "JOB-0003"
      [] OTHER -> "JOB-0004"

(* upsert_planner_update that inserts a row whether or not the order line has one *)
upsert_planner_update_inserting(pl, its, item_id, planner_status, ready_at, now) ==
    [planner |-> Append(pl, [item_id |-> item_id, planner_status |-> planner_status,
                             ready_at |-> ready_at, updated_at |-> now]),
     items |-> [its EXCEPT ![item_id].status = planner_status]]

(* upsert_planner_update on the tables pl and its: the row of the order line *)
(* is overwritten or inserted, and the line's stored status is set          *)
upsert_planner_update(pl, its, item_id, planner_status, ready_at, now) ==
    LET row == [item_id |-> item_id, planner_status |-> planner_status,
                ready_at |-> ready_at, updated_at |-> now]
        current == {i \in 1..Len(pl) : pl[i].item_id = item_id}
    IN [planner |-> IF current # {}
                    THEN [i \in 1..Len(pl) |-> IF i \in current THEN row ELSE pl[i]]
                    ELSE Append(pl, row),
        items |-> [its EXCEPT ![item_id].status = planner_status]]

(* process_logs rows the runs of SpecSteps may add *)
MaxSteps == 2

StepProcesses == {"MIXING", "STORE_RECEIVING"}

StepActions == {"MOVE_NEXT", "REJECTED"}

(* requests begun so far, by the rows their first commits left: scans, jobs, *)
(* batches and planner rows written after the seed                           *)
StepGrowth ==
    (Len(logs) - Len(SeedLogs)) + (Len(jobs) - Len(SeedJobs)) + (Len(batches) - Len(SeedBatches))
    + Cardinality({q \in 1..Len(planner) : planner[q].updated_at > SeedNow})

(* the scan handler up to and including its first commit, the INSERT into process_logs *)
StepScanLog ==
    /\ pending = NULL
    /\ StepGrowth < MaxSteps
    /\ \E barcode_text \in BatchRefs, process_name \in StepProcesses, next_action \in StepActions,
          good_qty_kg \in GoodQtys, scan_time \in Clock :
          LET bid == FindBatch(batches, barcode_text)
          IN /\ bid # 0
             /\ ValidProcess(process_name)
             /\ ValidAction(next_action)
             /\ logs' = Append(logs, [batch_id |-> bid, process_name |-> process_name,
                                      scan_time |-> scan_time, input_qty_kg |-> 1004,
                                      good_qty_kg |-> good_qty_kg, reject_qty_kg |-> 0,
                                      next_action |-> next_action])
             /\ pending' = Some([op |-> "scan", pc |-> "logged", item_id |-> 0, batch_id |-> bid,
                                 process_name |-> process_name, next_action |-> next_action,
                                 good_qty_kg |-> good_qty_kg, scan_time |-> scan_time,
                                 item_status |-> "", message |-> <<>>])
    /\ UNCHANGED <<batches, labels, items, jobs, planner, events, resp>>

(* the UPDATE of update_batch_stage *)
StepScanStage ==
    /\ pending # NULL
    /\ pending[1].op = "scan"
    /\ pending[1].pc = "logged"
    /\ batches' = update_batch_stage(batches, pending[1].batch_id, pending[1].process_name,
                                     pending[1].next_action)
    /\ pending' = Some([pending[1] EXCEPT !.pc = "staged"])
    /\ UNCHANGED <<logs, labels, items, jobs, planner, events, resp>>

(* a scan with nothing left to write answers; one that has its order line to write goes on *)
StepScanAfterLabel(ls, message) ==
    IF jobs[batches[pending[1].batch_id].job_id].source_item_id = NULL
    THEN /\ labels' = ls
         /\ pending' = NULL
         /\ resp' = Resp("scan", TRUE, message)
    ELSE /\ labels' = ls
         /\ pending' = Some([pending[1] EXCEPT !.pc = "labelled", !.message = message])
         /\ resp' = resp

(* the INSERT or INSERTs of create_next_process_label, where the scan issues a label *)
StepScanLabel ==
    /\ pending # NULL
    /\ pending[1].op = "scan"
    /\ pending[1].pc = "staged"
    /\ IF IssuesLabel(pending[1].process_name, pending[1].next_action)
       THEN \E stamp \in Stamps, usec \in Usecs :
               LET issue == create_next_process_label(
                               labels, batches, pending[1].batch_id, pending[1].process_name,
                               ScanToProcess(pending[1].process_name),
                               pending[1].good_qty_kg, stamp, usec)
               IN IF issue.raised
                  THEN /\ labels' = labels
                       /\ pending' = NULL
                       /\ resp' = Resp("scan", FALSE, <<"sqlite3.IntegrityError">>)
                  ELSE StepScanAfterLabel(issue.labels,
                                          <<"Process scan recorded.", "Next process barcode issued:",
                                            issue.barcode[1]>>)
       ELSE StepScanAfterLabel(labels, <<"Process scan recorded.">>)
    /\ UNCHANGED <<batches, logs, items, jobs, planner, events>>

(* the UPDATE of the linked order line *)
StepScanItem ==
    /\ pending # NULL
    /\ pending[1].op = "scan"
    /\ pending[1].pc = "labelled"
    /\ LET linked == jobs[batches[pending[1].batch_id].job_id].source_item_id
           item_status == ScanItemStatus(pending[1].next_action, batches[pending[1].batch_id])
       IN /\ items' = [items EXCEPT ![linked[1]].status = item_status]
          /\ pending' = Some([pending[1] EXCEPT !.pc = "item", !.item_status = item_status])
    /\ UNCHANGED <<batches, logs, labels, jobs, planner, events, resp>>

(* the INSERT of record_item_event, and the answer *)
StepScanEvent ==
    /\ pending # NULL
    /\ pending[1].op = "scan"
    /\ pending[1].pc = "item"
    /\ LET linked == jobs[batches[pending[1].batch_id].job_id].source_item_id
       IN events' = Append(events, Event(linked[1], pending[1].scan_time, "PROCESS_SCAN",
                                         pending[1].process_name, pending[1].item_status))
    /\ pending' = NULL
    /\ resp' = Resp("scan", TRUE, pending[1].message)
    /\ UNCHANGED <<batches, logs, labels, items, jobs, planner>>

(* receive_next_process_label up to and including its first commit, the UPDATE of the label *)
StepReceiveLabel ==
    /\ pending = NULL
    /\ \E transfer_barcode \in TransferCodes, receiving_process \in ReceiveProcesses,
          received_qty_kg \in GoodQtys, now \in Clock :
          LET id == FindLabel(labels, transfer_barcode)
          IN /\ InFlow(receiving_process)
             /\ received_qty_kg > 0
             /\ id # 0
             /\ LabelIsIssued(labels[id])
             /\ StageMatches(labels[id], receiving_process)
             /\ labels' = [labels EXCEPT ![id].received_qty_kg = Some(received_qty_kg),
                                         ![id].qty_loss_kg = QtyLoss(labels[id].issued_qty_kg, received_qty_kg),
                                         ![id].status = "RECEIVED",
                                         ![id].received_at = Some(now)]
             /\ pending' = Some([op |-> "receive", pc |-> "labelled", item_id |-> 0,
                                 batch_id |-> labels[id].batch_id,
                                 process_name |-> receiving_process, next_action |-> "",
                                 good_qty_kg |-> received_qty_kg, scan_time |-> now,
                                 item_status |-> "",
                                 message |-> MsgReceived(received_qty_kg,
                                                         QtyLoss(labels[id].issued_qty_kg, received_qty_kg))])
    /\ UNCHANGED <<batches, logs, items, jobs, planner, events, resp>>

(* the UPDATE of batches that ends receive_next_process_label, and the answer *)
StepReceivePull ==
    /\ pending # NULL
    /\ pending[1].op = "receive"
    /\ batches' = [batches EXCEPT ![pending[1].batch_id].current_process = pending[1].process_name,
                                  ![pending[1].batch_id].status = "OPEN"]
    /\ pending' = NULL
    /\ resp' = Resp("receive", TRUE, pending[1].message)
    /\ UNCHANGED <<logs, labels, items, jobs, planner, events>>

(* a request that has only its order line and its event left to write; *)
(* batch_id holds the job or the batch the request made                 *)
StepPending(op, pc, item_id, row_id, item_status, now, message) ==
    Some([op |-> op, pc |-> pc, item_id |-> item_id, batch_id |-> row_id, process_name |-> "",
          next_action |-> "", good_qty_kg |-> 0, scan_time |-> now, item_status |-> item_status,
          message |-> message])

(* POST /item-tracker/<item_id> up to and including the UPDATE or INSERT of *)
(* the planner row in upsert_planner_update; the stepwise runs update the    *)
(* planner row of an order line once                                         *)
StepPlannerRow ==
    /\ pending = NULL
    /\ StepGrowth < MaxSteps
    /\ \E item_id \in {2}, planner_status \in {"HOLD"}, now \in Clock :
          /\ \A q \in 1..Len(planner) : planner[q].item_id = item_id => planner[q].updated_at <= SeedNow
          /\ planner' = upsert_planner_update(planner, items, item_id, planner_status, NULL, now).planner
          /\ pending' = StepPending("item_tracker_detail", "row", item_id, 0, planner_status, now,
                                     <<"Planner update saved.">>)
    /\ UNCHANGED <<batches, logs, labels, items, jobs, events, resp>>

(* the UPDATE of the order line that ends upsert_planner_update *)
StepPlannerItem ==
    /\ pending # NULL
    /\ pending[1].op = "item_tracker_detail"
    /\ pending[1].pc = "row"
    /\ items' = upsert_planner_update(planner, items, pending[1].item_id, pending[1].item_status,
                                      NULL, pending[1].scan_time).items
    /\ pending' = Some([pending[1] EXCEPT !.pc = "item"])
    /\ UNCHANGED <<batches, logs, labels, jobs, planner, events, resp>>

(* POST /jobs for an order line with record_item_event called first: the *)
(* first commit is the JOB_CREATED event, with no job written yet        *)
StepJobInsertEventFirst ==
    /\ pending = NULL
    /\ StepGrowth < MaxSteps
    /\ \E item_id \in {2}, now \in Clock :
          /\ items[item_id].planned_job_id = NULL
          /\ events' = Append(events, Event(item_id, now, "JOB_CREATED", "PLANNING", "JOB_CREATED"))
          /\ pending' = StepPending("jobs", "event", item_id, Len(jobs) + 1, "JOB_CREATED", now,
                                     <<"Job created from customer file line.">>)
    /\ UNCHANGED <<batches, logs, labels, items, jobs, planner, resp>>

(* POST /jobs for an order line up to and including the INSERT into jobs *)
StepJobInsert ==
    /\ pending = NULL
    /\ StepGrowth < MaxSteps
    /\ \E item_id \in {2}, now \in Clock :
          /\ items[item_id].planned_job_id = NULL
          /\ jobs' = Append(jobs, [job_no |-> JobName(Len(jobs) + 1), source_item_id |-> Some(item_id)])
          /\ pending' = StepPending("jobs", "row", item_id, Len(jobs) + 1, "JOB_CREATED", now,
                                     <<"Job created from customer file line.">>)
    /\ UNCHANGED <<batches, logs, labels, items, planner, events, resp>>

(* the UPDATE that links the order line to its new job *)
StepJobItem ==
    /\ pending # NULL
    /\ pending[1].op = "jobs"
    /\ pending[1].pc = "row"
    /\ items' = [items EXCEPT ![pending[1].item_id].planned_job_id = Some(pending[1].batch_id),
                              ![pending[1].item_id].status = "JOB_CREATED"]
    /\ pending' = Some([pending[1] EXCEPT !.pc = "item"])
    /\ UNCHANGED <<batches, logs, labels, jobs, planner, events, resp>>

(* POST /batches up to and including the INSERT into batches; a batch of a *)
(* job without an order line has nothing more to write                     *)
StepBatchInsert ==
    /\ pending = NULL
    /\ StepGrowth < MaxSteps
    /\ \E job_id \in {1, Len(jobs)}, now \in Clock :
          LET batch_no == BatchName(Len(batches) + 1)
              linked == jobs[job_id].source_item_id
          IN /\ batches' = Append(batches, [batch_no |-> batch_no, job_id |-> job_id,
                                            planned_input_kg |-> 500000, current_process |-> "MIXING",
                                            status |-> "OPEN", barcode_text |-> batch_no])
             /\ IF linked = NULL
                THEN /\ pending' = NULL
                     /\ resp' = Resp("batches", TRUE, <<"Batch created.">>)
                ELSE /\ pending' = StepPending("batches", "row", linked[1], Len(batches) + 1,
                                               "READY_FOR_PRODUCTION", now, <<"Batch created.">>)
                     /\ resp' = resp
    /\ UNCHANGED <<logs, labels, items, jobs, planner, events>>

(* the UPDATE of the linked order line to READY_FOR_PRODUCTION *)
StepBatchItem ==
    /\ pending # NULL
    /\ pending[1].op = "batches"
    /\ pending[1].pc = "row"
    /\ items' = [items EXCEPT ![pending[1].item_id].status = "READY_FOR_PRODUCTION"]
    /\ pending' = Some([pending[1] EXCEPT !.pc = "item"])
    /\ UNCHANGED <<batches, logs, labels, jobs, planner, events, resp>>

(* the INSERT of record_item_event that ends a planner update, a job    *)
(* creation or a batch creation, and the answer                         *)
StepItemEvent ==
    /\ pending # NULL
    /\ pending[1].op \in {"item_tracker_detail", "jobs", "batches"}
    /\ pending[1].pc = "item"
    /\ events' = Append(events,
                        CASE pending[1].op = "item_tracker_detail" ->
                                Event(pending[1].item_id, pending[1].scan_time, "PLANNER_UPDATE", "PLANNING",
                                      pending[1].item_status)
                          [] pending[1].op = "jobs" ->
                                Event(pending[1].item_id, pending[1].scan_time, "JOB_CREATED", "PLANNING",
                                      "JOB_CREATED")
                          [] OTHER ->
                                Event(pending[1].item_id, pending[1].scan_time, "BATCH_CREATED", "MIXING",
                                      "READY_FOR_PRODUCTION"))
    /\ pending' = NULL
    /\ resp' = Resp(pending[1].op, TRUE, pending[1].message)
    /\ UNCHANGED <<batches, logs, labels, items, jobs, planner>>

(* the process dies between two commits of a request; what was committed stays *)
StepCrash ==
    /\ pending # NULL
    /\ pending' = NULL
    /\ resp' = Resp(pending[1].op, FALSE, <<"no response">>)
    /\ UNCHANGED <<batches, logs, labels, items, jobs, planner, events>>

NextSteps ==
    \/ StepScanLog
    \/ StepScanStage
    \/ StepScanLabel
    \/ StepScanItem
    \/ StepScanEvent
    \/ StepReceiveLabel
    \/ StepReceivePull
    \/ StepPlannerRow
    \/ StepPlannerItem
    \/ StepJobInsert
    \/ StepJobItem
    \/ StepBatchInsert
    \/ StepBatchItem
    \/ StepItemEvent
    \/ StepCrash

SpecSteps == Init /\ [][NextSteps]_vars

(* ------------------------------------------------------------------ *)
(* Order tracking: the snapshot of an order line and the requests that  *)
(* create order lines, jobs and planner updates                         *)
(* ------------------------------------------------------------------ *)

ITEM_STATUS_CHOICES ==
    {"WAITING_PLANNING", "READY_FOR_PRODUCTION", "JOB_CREATED", "IN_PRODUCTION", "HOLD", "COMPLETED"}

(* the tables as one record, for the operators that read a store *)
Store ==
    [batches |-> batches, logs |-> logs, labels |-> labels, items |-> items,
     jobs |-> jobs, planner |-> planner, events |-> events]

(* customer_files.order_date of the seeded files: 2026-02-28 *)
FileOrderDate(f) == 0

FileExists(f) == f \in {1, 2}

(* ORDER BY id DESC LIMIT 1: the row inserted last, whatever its time *)
LatestRowInserted(ids, t) == CHOOSE i \in ids : \A j \in ids : j <= i

(* ORDER BY datetime(t) DESC, id DESC LIMIT 1 over the rows ids of a table whose time column is t *)
LatestRow(ids, t) ==
    LET times == {t[i] : i \in ids}
        latest == CHOOSE x \in times : \A y \in times : y <= x
        rows == {i \in ids : t[i] = latest}
    IN CHOOSE i \in rows : \A j \in rows : j <= i

(* min(100, int(((PROCESS_FLOW.index(p) + 1) / len(PROCESS_FLOW)) * 100)): int() truncates *)
ScanProgress(process_name) ==
    LET pct == ((FlowIndex(process_name) + 1) * 100) \div Len(PROCESS_FLOW)
    IN IF pct < 100 THEN pct ELSE 100

(* _parse_dt: None for no text and for a text none of the three formats  *)
(* matches, else the time the text names (midnight for a date-only text). *)
(* A stored text that names no time is written as a negative value.       *)
_parse_dt(value) ==
    IF value = NULL THEN NULL
    ELSE IF value[1] < 0 THEN NULL
    ELSE value

(* the risk flag with the same-date test made before the ready-after-due test *)
SnapshotRiskTightFirst(due_date, ready_at, current_status) ==
    LET due_dt == _parse_dt(due_date)
        ready_dt == _parse_dt(ready_at)
    IN IF due_dt # NULL /\ ready_dt # NULL /\ ready_dt[1] \div DayMinutes = due_dt[1] \div DayMinutes
       THEN "TIGHT"
       ELSE IF due_dt # NULL /\ ready_dt # NULL /\ ready_dt[1] > due_dt[1] THEN "RISK"
       ELSE IF due_dt # NULL /\ ready_dt = NULL /\ current_status # "COMPLETED" THEN "CHECK"
       ELSE "ON_TRACK"

(* the risk flag from customer_files.due_date and the planner's ready_at *)
SnapshotRisk(due_date, ready_at, current_status) ==
    LET due_dt == _parse_dt(due_date)
        ready_dt == _parse_dt(ready_at)
    IN IF due_dt # NULL /\ ready_dt # NULL /\ ready_dt[1] > due_dt[1] THEN "RISK"
       ELSE IF due_dt # NULL /\ ready_dt # NULL /\ ready_dt[1] \div DayMinutes = due_dt[1] \div DayMinutes
       THEN "TIGHT"
       ELSE IF due_dt # NULL /\ ready_dt = NULL /\ current_status # "COMPLETED" THEN "CHECK"
       ELSE "ON_TRACK"

(* the first assignments of the snapshot: the planner's status if there is a *)
(* planner row with one, else the line's stored status, else WAITING_PLANNING *)
SnapshotBase(planner_row, item) ==
    [status |-> IF planner_row # NULL /\ planner_row[1].planner_status # ""
                THEN planner_row[1].planner_status
                ELSE IF item.status # "" THEN item.status
                ELSE "WAITING_PLANNING",
     current_stage |-> "ORDER RECEIVED",
     progress_pct |-> 5]

(* the job block without the promotion of the status *)
SnapshotJobUnpromoted(v, job_id) ==
    IF job_id = NULL THEN v
    ELSE [status |-> v.status, current_stage |-> "JOB CREATED", progress_pct |-> 18]

(* if item['job_id']: ... *)
SnapshotJob(v, job_id) ==
    IF job_id = NULL THEN v
    ELSE [status |-> IF v.status \in {"WAITING_PLANNING", "PENDING_JOB"} THEN "JOB_CREATED" ELSE v.status,
          current_stage |-> "JOB CREATED",
          progress_pct |-> 18]

(* the batch block keeping the status it was given *)
SnapshotBatchKeepsStatus(v, batch) ==
    IF batch = NULL THEN v
    ELSE [status |-> v.status,
          current_stage |-> IF batch[1].current_process # "" THEN batch[1].current_process ELSE "MIXING",
          progress_pct |-> 30]

(* if batch: ... *)
SnapshotBatch(v, batch) ==
    IF batch = NULL THEN v
    ELSE [status |-> IF batch[1].status = "OPEN" THEN "IN_PRODUCTION"
                     ELSE IF batch[1].status = "HOLD" THEN "HOLD"
                     ELSE "COMPLETED",
          current_stage |-> IF batch[1].current_process # "" THEN batch[1].current_process ELSE "MIXING",
          progress_pct |-> 30]

(* the scan block without the HOLD of a REJECTED scan *)
SnapshotLogIgnoresRejected(v, latest_log) ==
    IF latest_log = NULL THEN v
    ELSE [status |-> v.status,
          current_stage |-> latest_log[1].process_name,
          progress_pct |-> IF InFlow(latest_log[1].process_name)
                           THEN ScanProgress(latest_log[1].process_name)
                           ELSE v.progress_pct]

(* if latest_log: ... *)
SnapshotLog(v, latest_log) ==
    IF latest_log = NULL THEN v
    ELSE [status |-> IF latest_log[1].next_action = "REJECTED" THEN "HOLD" ELSE v.status,
          current_stage |-> latest_log[1].process_name,
          progress_pct |-> IF InFlow(latest_log[1].process_name)
                           THEN ScanProgress(latest_log[1].process_name)
                           ELSE v.progress_pct]

(* the completion block setting the status alone *)
SnapshotCompletedStatusOnly(v, batch) ==
    IF batch # NULL /\ batch[1].status = "COMPLETED"
    THEN [status |-> "COMPLETED", current_stage |-> v.current_stage, progress_pct |-> v.progress_pct]
    ELSE v

(* if batch and batch['status'] == 'COMPLETED': ... *)
SnapshotCompleted(v, batch) ==
    IF batch # NULL /\ batch[1].status = "COMPLETED"
    THEN [status |-> "COMPLETED", current_stage |-> "STORE_RECEIVING", progress_pct |-> 100]
    ELSE v

(* get_item_tracking_snapshot for an order line that exists, read from the store st *)
(* ORDER BY b.id ASC LIMIT 1: the first batch of the job instead of the last *)
SnapshotBatchIdOldest(batch_ids) == CHOOSE b \in batch_ids : \A c \in batch_ids : b <= c

(* ORDER BY b.id DESC LIMIT 1 over the batches of the job *)
SnapshotBatchId(batch_ids) == CHOOSE b \in batch_ids : \A c \in batch_ids : c <= b

get_item_tracking_snapshot(st, item_id) ==
    LET item == st.items[item_id]
        job_id == item.planned_job_id
        planner_ids == {i \in 1..Len(st.planner) : st.planner[i].item_id = item_id}
        planner_row == IF planner_ids = {} THEN NULL
                       ELSE Some(st.planner[CHOOSE i \in planner_ids : TRUE])
        batch_ids == IF job_id = NULL THEN {}
                     ELSE {b \in 1..Len(st.batches) : st.batches[b].job_id = job_id[1]}
        bid == SnapshotBatchId(batch_ids)
        batch == IF batch_ids = {} THEN NULL ELSE Some(st.batches[bid])
        log_ids == IF batch = NULL THEN {} ELSE {l \in 1..Len(st.logs) : st.logs[l].batch_id = bid}
        latest_log == IF log_ids = {} THEN NULL
                      ELSE Some(st.logs[LatestRow(log_ids, [l \in log_ids |-> st.logs[l].scan_time])])
        event_ids == {e \in 1..Len(st.events) : st.events[e].item_id = item_id}
        latest_event == IF event_ids = {} THEN NULL
                        ELSE Some(st.events[LatestRow(event_ids,
                                                      [e \in event_ids |-> st.events[e].event_time])])
        v == SnapshotCompleted(
                SnapshotLog(SnapshotBatch(SnapshotJob(SnapshotBase(planner_row, item), job_id), batch),
                            latest_log),
                batch)
        ready_at == IF planner_row # NULL THEN planner_row[1].ready_at ELSE NULL
        last_update == IF latest_event # NULL THEN latest_event[1].event_time
                       ELSE IF latest_log # NULL THEN latest_log[1].scan_time
                       ELSE IF planner_row # NULL THEN planner_row[1].updated_at
                       ELSE item.created_at
    IN [status |-> v.status,
        current_stage |-> v.current_stage,
        progress_pct |-> v.progress_pct,
        risk |-> SnapshotRisk(Some(FileDue(item.file_id)), ready_at, v.status),
        last_update |-> last_update,
        batch_status |-> IF batch # NULL THEN Some(batch[1].status) ELSE NULL,
        current_process |-> IF batch # NULL THEN Some(batch[1].current_process) ELSE NULL,
        latest_scan_time |-> IF latest_log # NULL THEN Some(latest_log[1].scan_time) ELSE NULL,
        ready_at |-> ready_at]

(* POST /customer-files/<file_id>: a new order line, with its ORDER_LINE_CREATED *)
(* event stamped with the file's order date                                     *)
customer_file_detail(file_id, product_id, ordered_qty_kg, now) ==
    IF ~FileExists(file_id) THEN Unchanged("customer_file_detail", <<"Customer file not found.">>)
    ELSE IF product_id = 0 \/ ordered_qty_kg <= 0
    THEN Unchanged("customer_file_detail", <<"Please complete required item fields.">>)
    ELSE [batches |-> batches, logs |-> logs, labels |-> labels,
          items |-> Append(items, [file_id |-> file_id, status |-> "PENDING_JOB",
                                   planned_job_id |-> NULL, created_at |-> now]),
          jobs |-> jobs, planner |-> planner,
          events |-> Append(events, Event(Len(items) + 1, FileOrderDate(file_id),
                                          "ORDER_LINE_CREATED", "ORDER", "WAITING_PLANNING")),
          resp |-> Resp("customer_file_detail", TRUE, <<"Item line added to customer file.">>)]

(* POST /item-tracker/<item_id>: a planner update *)
item_tracker_detail(item_id, planner_status, ready_at, now) ==
    IF item_id \notin 1..Len(items) THEN Unchanged("item_tracker_detail", <<"Customer item not found.">>)
    ELSE IF planner_status \notin ITEM_STATUS_CHOICES
    THEN Unchanged("item_tracker_detail", <<"Invalid planner status.">>)
    ELSE LET u == upsert_planner_update(planner, items, item_id, planner_status, ready_at, now)
         IN [batches |-> batches, logs |-> logs, labels |-> labels, items |-> u.items,
             jobs |-> jobs, planner |-> u.planner,
             events |-> Append(events, Event(item_id, now, "PLANNER_UPDATE", "PLANNING", planner_status)),
             resp |-> Resp("item_tracker_detail", TRUE, <<"Planner update saved.">>)]

(* what the tracker page shows of a snapshot *)
SnapshotMsg(item_id, snap) ==
    <<"snapshot", item_id, snap.status, snap.current_stage, snap.progress_pct, snap.risk,
      snap.last_update>>

(* the tracker page with a write of the computed status back to the order line *)
item_tracker_page_storing(item_id) ==
    IF item_id \notin 1..Len(items) THEN Unchanged("snapshot", <<"Customer item not found.">>)
    ELSE LET snap == get_item_tracking_snapshot(Store, item_id)
         IN [batches |-> batches, logs |-> logs, labels |-> labels,
             items |-> [items EXCEPT ![item_id].status = snap.status],
             jobs |-> jobs, planner |-> planner, events |-> events,
             resp |-> Resp("snapshot", TRUE, SnapshotMsg(item_id, snap))]

(* GET /item-tracker/<item_id>: the snapshot of the order line, read only *)
item_tracker_page(item_id) ==
    IF item_id \notin 1..Len(items) THEN Unchanged("snapshot", <<"Customer item not found.">>)
    ELSE [batches |-> batches, logs |-> logs, labels |-> labels, items |-> items,
          jobs |-> jobs, planner |-> planner, events |-> events,
          resp |-> Resp("snapshot", TRUE,
                        SnapshotMsg(item_id, get_item_tracking_snapshot(Store, item_id)))]

(* POST /jobs: a job from an order line (item_id # 0) or a job of its own *)
create_job(job_no, item_id, fields_complete, now) ==
    IF job_no = "" THEN Unchanged("jobs", <<"Job number is required.">>)
    ELSE IF item_id # 0
    THEN IF item_id \notin 1..Len(items) \/ items[item_id].planned_job_id # NULL
         THEN Unchanged("jobs", <<"Selected customer file line is not available.">>)
         ELSE IF \E j \in 1..Len(jobs) : jobs[j].job_no = job_no
         THEN Unchanged("jobs", <<"sqlite3.IntegrityError">>)
         ELSE [batches |-> batches, logs |-> logs, labels |-> labels,
               items |-> [items EXCEPT ![item_id].planned_job_id = Some(Len(jobs) + 1),
                                       ![item_id].status = "JOB_CREATED"],
               jobs |-> Append(jobs, [job_no |-> job_no, source_item_id |-> Some(item_id)]),
               planner |-> planner,
               events |-> Append(events, Event(item_id, now, "JOB_CREATED", "PLANNING", "JOB_CREATED")),
               resp |-> Resp("jobs", TRUE, <<"Job created from customer file line.">>)]
    ELSE IF ~fields_complete
    THEN Unchanged("jobs", <<"Please complete all required job fields, or select one customer file line.">>)
    ELSE IF \E j \in 1..Len(jobs) : jobs[j].job_no = job_no
    THEN Unchanged("jobs", <<"Job number already exists.">>)
    ELSE [batches |-> batches, logs |-> logs, labels |-> labels, items |-> items,
          jobs |-> Append(jobs, [job_no |-> job_no, source_item_id |-> NULL]),
          planner |-> planner, events |-> events,
          resp |-> Resp("jobs", TRUE, <<"Job created.">>)]

(* rows the tracked runs may add to the tables on top of the seed rows *)
MaxTrack == 4

TrackGrowth(r) ==
    (Len(r.items) - Len(SeedItems)) + (Len(r.jobs) - Len(SeedJobs))
    + (Len(r.batches) - Len(SeedBatches)) + (Len(r.logs) - Len(SeedLogs))
    + (Len(r.events) - Len(SeedEvents))

TrackWithin(r) == TrackGrowth(r) <= MaxTrack

(* the times the tracked requests carry: the scan_time field may be back-dated *)
TrackClock == {SeedNow + 1, SeedNow + 2}

TrackItem ==
    \E ordered_qty_kg \in {0, 180000} :
       \E r \in {customer_file_detail(1, 1, ordered_qty_kg, SeedNow + 1)} :
          TrackWithin(r) /\ Apply(r)

TrackPlanner ==
    \E item_id \in {2, Len(items)}, planner_status \in {"HOLD", "PENDING_JOB"},
       ready_at \in {NULL, Some(FileDue(1))} :
       \E r \in {item_tracker_detail(item_id, planner_status, ready_at, SeedNow + 1)} :
          TrackWithin(r) /\ Apply(r)

TrackJob ==
    \E item_id \in {0, 1, 2, Len(items)}, job_no \in {JobName(Len(jobs) + 1)} :
       \E r \in {create_job(job_no, item_id, TRUE, SeedNow + 1)} :
          TrackWithin(r) /\ Apply(r)

TrackBatch ==
    \E job_id \in {1, Len(jobs)} :
       \E r \in {create_batch(BatchName(Len(batches) + 1), job_id, 500000, "", SeedNow + 1)} :
          TrackWithin(r) /\ Apply(r)

TrackScan ==
    \E process_name \in {"MIXING", "STORE_RECEIVING"}, next_action \in {"MOVE_NEXT", "REJECTED"},
       scan_time \in TrackClock :
       \E r \in {scan(BatchName(1), process_name, next_action, 1004, 1004, 0, scan_time, 0, 1, 0)} :
          TrackWithin(r) /\ Apply(r)

TrackReceive ==
    \E transfer_barcode \in TransferCodes :
       \E r \in {receive_next(transfer_barcode, "EXTRUDER", 1004, SeedNow + 1)} :
          TrackWithin(r) /\ Apply(r)

TrackView ==
    \E item_id \in 1..(Len(items) + 1) :
       \E r \in {item_tracker_page(item_id)} : Apply(r)

NextTrack ==
    \/ TrackItem
    \/ TrackPlanner
    \/ TrackJob
    \/ TrackBatch
    \/ TrackScan
    \/ TrackReceive
    \/ TrackView

SpecTrack == Init /\ [][NextTrack]_vars

(* ------------------------------------------------------------------ *)
(* Reports: the WIP summary of the sections and the variance of batches *)
(* ------------------------------------------------------------------ *)

(* SUM(q) over the rows ids of a table, q the column as a function of the row id *)
RECURSIVE SumOver(_, _)
SumOver(ids, q) ==
    IF ids = {} THEN 0
    ELSE LET i == CHOOSE x \in ids : TRUE
         IN q[i] + SumOver(ids \ {i}, q)

(* the WIP summary with the labels still in flight counted in the stage they go to *)
get_section_wip_summary_with_issued(ls) ==
    [section \in FlowSet |->
        LET into == {l \in 1..Len(ls) : ls[l].to_process = section}
            outof == {l \in 1..Len(ls) : ls[l].from_process = section}
            received == SumOver(into, [l \in into |-> IF ls[l].received_qty_kg = NULL
                                                       THEN ls[l].issued_qty_kg
                                                       ELSE ls[l].received_qty_kg[1]])
            issued == SumOver(outof, [l \in outof |-> ls[l].issued_qty_kg])
        IN [received_kg |-> Round2(received), issued_kg |-> Round2(issued),
            in_section_kg |-> Round2(received - issued)]]

(* get_section_wip_summary over the labels ls: one row per stage *)
get_section_wip_summary(ls) ==
    [section \in FlowSet |->
        LET into == {l \in 1..Len(ls) : ls[l].to_process = section /\ ls[l].status = "RECEIVED"}
            outof == {l \in 1..Len(ls) : ls[l].from_process = section}
            received == SumOver(into, [l \in into |-> IF ls[l].received_qty_kg = NULL THEN 0
                                                       ELSE ls[l].received_qty_kg[1]])
            issued == SumOver(outof, [l \in outof |-> ls[l].issued_qty_kg])
        IN [received_kg |-> Round2(received), issued_kg |-> Round2(issued),
            in_section_kg |-> Round2(received - issued)]]

(* ORDER BY datetime(t), id LIMIT 1 over the rows ids *)
EarliestRow(ids, t) ==
    LET times == {t[i] : i \in ids}
        earliest == CHOOSE x \in times : \A y \in times : x <= y
        rows == {i \in ids : t[i] = earliest}
    IN CHOOSE i \in rows : \A j \in rows : i <= j

(* the rows ids in ORDER BY datetime(t), id *)
RECURSIVE ScanOrder(_, _)
ScanOrder(ids, t) ==
    IF ids = {} THEN <<>>
    ELSE LET i == EarliestRow(ids, t)
         IN <<i>> \o ScanOrder(ids \ {i}, t)

(* the loop over the scans of a batch from scan k on: the stage of the   *)
(* scan whose loss first exceeds every loss before it, max_loss being    *)
(* the greatest loss so far (-1.0 before the first scan)                 *)
RECURSIVE LossLoop(_, _, _, _, _)
LossLoop(lg, order, k, max_loss, probable_loss_process) ==
    IF k > Len(order) THEN probable_loss_process
    ELSE LET loss == lg[order[k]].input_qty_kg - lg[order[k]].good_qty_kg
         IN IF loss > max_loss
            THEN LossLoop(lg, order, k + 1, loss, Some(lg[order[k]].process_name))
            ELSE LossLoop(lg, order, k + 1, max_loss, probable_loss_process)

(* round(n / d, 0) for d > 0: the nearest integer; the quotients below are never a tie *)
RoundRatio(n, d) ==
    IF n >= 0 THEN (2 * n + d) \div (2 * d) ELSE -((2 * (-n) + d) \div (2 * d))

(* round(v / d * 100, 2) in units of 0.01 % for quantities v and d # 0 in *)
(* 0.001 kg: the long division of v * 10000 by d in two steps of two      *)
(* digits, so that no intermediate value leaves 32 bits                   *)
PctOf(v, d) ==
    LET n == IF (v < 0) = (d < 0) THEN (IF v < 0 THEN -v ELSE v) ELSE (IF v < 0 THEN v ELSE -v)
        m == IF d < 0 THEN -d ELSE d
        a == (IF n < 0 THEN -n ELSE n) * 100
        p == (a \div m) * 100 + RoundRatio((a % m) * 100, m)
    IN IF n < 0 THEN -p ELSE p

(* first_input taken from the latest scan instead of the earliest *)
VarianceFirstInputOfLatest(planned_input_kg, lg, order) ==
    IF order = <<>> THEN planned_input_kg ELSE lg[order[Len(order)]].input_qty_kg

(* first_input: planned_input_kg, or logs[0]['input_qty_kg'] if there are scans *)
VarianceFirstInput(planned_input_kg, lg, order) ==
    IF order = <<>> THEN planned_input_kg ELSE lg[order[1]].input_qty_kg

(* variance_pct computed against good_output = 0 when there are no scans *)
VariancePctOfPlanned(latest_good, first_input, variance) ==
    IF first_input = 0 THEN NULL
    ELSE IF latest_good = NULL THEN Some(10000)
    ELSE Some(PctOf(variance[1], first_input))

(* variance_pct in units of 0.01 %: round(variance / first_input * 100, 2), *)
(* None without scans and for first_input = 0                               *)
VariancePct(latest_good, first_input, variance) ==
    IF latest_good # NULL /\ first_input # 0
    THEN Some(PctOf(variance[1], first_input))
    ELSE NULL

(* the row of batch b in get_batch_variance_rows, over the batches bs and the scans lg *)
get_batch_variance_row(bs, lg, b) ==
    LET ids == {l \in 1..Len(lg) : lg[l].batch_id = b}
        order == ScanOrder(ids, [l \in ids |-> lg[l].scan_time])
        first_input == VarianceFirstInput(bs[b].planned_input_kg, lg, order)
        latest_good == IF order = <<>> THEN NULL ELSE Some(lg[order[Len(order)]].good_qty_kg)
        total_reject == SumOver(ids, [l \in ids |-> lg[l].reject_qty_kg])
        good_output == IF latest_good # NULL THEN latest_good[1] ELSE 0
        variance == IF latest_good # NULL THEN Some(Round2(first_input - good_output)) ELSE NULL
    IN [batch_no |-> bs[b].batch_no,
        input_qty_kg |-> first_input,
        good_output_kg |-> good_output,
        total_reject_kg |-> Round2(total_reject),
        variance_kg |-> variance,
        variance_pct |-> VariancePct(latest_good, first_input, variance),
        process_count |-> Len(order),
        probable_loss_process |-> LossLoop(lg, order, 1, -1000, NULL)]

(* rows the report runs may add to process_logs and batches *)
MaxReport == 2

(* input_qty_kg, good_qty_kg and reject_qty_kg of the scans of the report runs *)
ReportQtys == {<<1004, 1000, 4>>, <<0, 1004, 0>>, <<5000, 1000, 0>>}

(* scan_time as the form carries it: before and after the seeded scans *)
ReportClock == {SeedNow - 1, SeedNow + 1}

ReportBatch ==
    \E r \in {create_batch(BatchName(Len(batches) + 1), 1, 500000, "", SeedNow + 1)} :
       Growth(r) <= MaxReport /\ Apply(r)

ReportScan ==
    \E barcode_text \in {BatchName(1), BatchName(Len(batches))}, process_name \in {"MIXING", "PACKING"},
       qty \in ReportQtys, scan_time \in ReportClock :
       \E r \in {scan(barcode_text, process_name, "REWORK", qty[1], qty[2], qty[3], scan_time, 0, 1, 0)} :
          Growth(r) <= MaxReport /\ Apply(r)

NextReport ==
    \/ ReportBatch
    \/ ReportScan

SpecReport == Init /\ [][NextReport]_vars

(* ------------------------------------------------------------------ *)
(* Planning: order lines and their planner updates, without production  *)
(* ------------------------------------------------------------------ *)

(* rows the planning runs may add to the order lines and the event ledger *)
MaxPlan == 3

PlanWithin(r) == (Len(r.items) - Len(SeedItems)) + (Len(r.events) - Len(SeedEvents)) <= MaxPlan

(* ready_at of the planner form: empty, the due date of CF-0001 as a date, *)
(* 10:00 on that day, and a text that names no time                        *)
ReadyInputs == {NULL, Some(FileDue(1)), Some(FileDue(1) + 600), Some(-1)}

PlanItem ==
    \E r \in {customer_file_detail(1, 1, 180000, SeedNow + 1)} :
       PlanWithin(r) /\ Apply(r)

PlanUpdate ==
    \E item_id \in {1, 2, Len(SeedItems) + 1}, planner_status \in {"COMPLETED", "HOLD", "PENDING_JOB"},
       ready_at \in ReadyInputs :
       \E r \in {item_tracker_detail(item_id, planner_status, ready_at, SeedNow + 1)} :
          PlanWithin(r) /\ Apply(r)

PlanView ==
    \E item_id \in {1, Len(items)} :
       \E r \in {item_tracker_page(item_id)} : Apply(r)

NextPlan ==
    \/ PlanItem
    \/ PlanUpdate
    \/ PlanView

SpecPlan == Init /\ [][NextPlan]_vars

(* ------------------------------------------------------------------ *)
(* Concurrent receipts: every request runs on a connection of its own   *)
(* and every statement commits by itself, so the statements of two      *)
(* requests interleave.  pending is the sequence of the requests, each  *)
(* with the label row its SELECT returned and the point it has reached  *)
(* ------------------------------------------------------------------ *)

(* the receive requests of a run, and the scans that issue the labels *)
MaxRace == 2

(* POST /scan at MIXING with MOVE_NEXT, run to its end: it issues a label *)
RaceIssue ==
    /\ Len(logs) - Len(SeedLogs) < MaxRace
    /\ \E stamp \in Stamps :
          \E r \in {scan(BatchName(1), "MIXING", "MOVE_NEXT", 1004, 1004, 0, SeedNow + 1, 0, stamp, 0)} :
             Apply(r)

(* the SELECT of receive_next_process_label, after the checks of the form *)
RaceRead ==
    /\ Len(pending) < MaxRace
    /\ \E transfer_barcode \in TransferCodes, receiving_process \in {"EXTRUDER", "MIXING"}, received_qty_kg \in {996, 1004} :
          LET id == FindLabel(labels, transfer_barcode)
          IN pending' = Append(pending, [op |-> "receive", pc |-> "read", label_id |-> id,
                                         label |-> IF id = 0 THEN NULL ELSE Some(labels[id]),
                                         receiving_process |-> receiving_process,
                                         received_qty_kg |-> received_qty_kg,
                                         ok |-> FALSE, wrote |-> FALSE])
    /\ UNCHANGED <<batches, logs, labels, items, jobs, planner, events, resp>>

(* the checks of the row that was read and the UPDATE of the label *)
RaceLabel ==
    \E k \in 1..Len(pending), now \in Clock :
       LET q == pending[k]
       IN /\ q.pc = "read"
          /\ IF q.label = NULL
             THEN /\ resp' = Resp("receive", FALSE, MsgNotFound)
                  /\ pending' = [pending EXCEPT ![k].pc = "done"]
                  /\ labels' = labels
             ELSE IF ~LabelIsIssued(q.label[1])
             THEN /\ resp' = Resp("receive", FALSE, MsgAlreadyReceived)
                  /\ pending' = [pending EXCEPT ![k].pc = "done"]
                  /\ labels' = labels
             ELSE IF ~StageMatches(q.label[1], q.receiving_process)
             THEN /\ resp' = Resp("receive", FALSE, MsgStageMismatch(q.label[1].to_process, q.receiving_process))
                  /\ pending' = [pending EXCEPT ![k].pc = "done"]
                  /\ labels' = labels
             ELSE /\ labels' = [labels EXCEPT
                                   ![q.label_id].received_qty_kg = Some(q.received_qty_kg),
                                   ![q.label_id].qty_loss_kg = QtyLoss(q.label[1].issued_qty_kg, q.received_qty_kg),
                                   ![q.label_id].status = "RECEIVED",
                                   ![q.label_id].received_at = Some(now)]
                  /\ pending' = [pending EXCEPT ![k].pc = "labelled", ![k].wrote = TRUE]
                  /\ resp' = resp
          /\ UNCHANGED <<batches, logs, items, jobs, planner, events>>

(* the UPDATE of batches and the answer of the request *)
RacePull ==
    \E k \in 1..Len(pending) :
       LET q == pending[k]
       IN /\ q.pc = "labelled"
          /\ batches' = [batches EXCEPT ![q.label[1].batch_id].current_process = q.receiving_process,
                                        ![q.label[1].batch_id].status = "OPEN"]
          /\ pending' = [pending EXCEPT ![k].pc = "done", ![k].ok = TRUE]
          /\ resp' = Resp("receive", TRUE,
                          MsgReceived(q.received_qty_kg, QtyLoss(q.label[1].issued_qty_kg, q.received_qty_kg)))
          /\ UNCHANGED <<logs, labels, items, jobs, planner, events>>

NextRace ==
    \/ RaceIssue
    \/ RaceRead
    \/ RaceLabel
    \/ RacePull

SpecRace == Init /\ [][NextRace]_vars

(* ------------------------------------------------------------------ *)
(* Lines, jobs and scans: jobs made from an order line and jobs of      *)
(* their own, a batch for the newest job, and scans of the newest batch *)
(* with every next_action                                               *)
(* ------------------------------------------------------------------ *)

(* rows the runs may add to jobs, batches and process_logs *)
MaxLink == 3

LinkGrowth(r) ==
    (Len(r.jobs) - Len(SeedJobs)) + (Len(r.batches) - Len(SeedBatches)) + (Len(r.logs) - Len(SeedLogs))

LinkJob ==
    \E item_id \in {0, 2} :
       \E r \in {create_job(JobName(Len(jobs) + 1), item_id, TRUE, SeedNow + 1)} :
          LinkGrowth(r) <= MaxLink /\ Apply(r)

LinkBatch ==
    \E r \in {create_batch(BatchName(Len(batches) + 1), Len(jobs), 500000, "", SeedNow + 1)} :
       LinkGrowth(r) <= MaxLink /\ Apply(r)

LinkScan ==
    \E barcode_text \in {BatchName(Len(batches))}, process_name \in {"MIXING", "STORE_RECEIVING"},
       next_action \in NEXT_ACTIONS, scan_time \in Clock :
       \E r \in {scan(barcode_text, process_name, next_action, 1004, 1004, 0, scan_time, 0, 1, 0)} :
          LinkGrowth(r) <= MaxLink /\ Apply(r)

NextLink ==
    \/ LinkJob
    \/ LinkBatch
    \/ LinkScan

SpecLink == Init /\ [][NextLink]_vars

(* ------------------------------------------------------------------ *)
(* The received quantity as the form parses it: float() accepts the     *)
(* text "nan", of which every comparison is false and which sqlite3     *)
(* stores as NULL.  A parsed quantity is <<v>> for a number v and <<>>  *)
(* for nan                                                              *)
(* ------------------------------------------------------------------ *)

(* the scans that issue the labels of these runs *)
MaxForm == 2

(* float(request.form.get('received_qty_kg', 0) or 0) of the texts the runs send *)
FormQtys == {NULL, Some(0), Some(996), Some(1004)}

(* POST /scan with action_type = receive_next, from the parsed quantity on *)
receive_next_form(transfer_barcode, receiving_process, qty, now) ==
    IF ~InFlow(receiving_process) THEN Unchanged("receive", <<"Invalid receiving process.">>)
    ELSE IF qty # NULL /\ qty[1] <= 0
    THEN Unchanged("receive", <<"Received quantity must be more than zero.">>)
    ELSE IF qty # NULL THEN receive_next(transfer_barcode, receiving_process, qty[1], now)
    ELSE LET id == FindLabel(labels, transfer_barcode)
         IN IF id = 0 THEN Unchanged("receive", MsgNotFound)
            ELSE IF ~LabelIsIssued(labels[id]) THEN Unchanged("receive", MsgAlreadyReceived)
            ELSE IF ~StageMatches(labels[id], receiving_process)
            THEN Unchanged("receive", MsgStageMismatch(labels[id].to_process, receiving_process))
            ELSE [batches |-> [batches EXCEPT ![labels[id].batch_id].current_process = receiving_process,
                                              ![labels[id].batch_id].status = "OPEN"],
                  logs |-> logs,
                  labels |-> [labels EXCEPT ![id].received_qty_kg = NULL,
                                            ![id].qty_loss_kg = 0,
                                            ![id].status = "RECEIVED",
                                            ![id].received_at = Some(now)],
                  items |-> items, jobs |-> jobs, planner |-> planner, events |-> events,
                  resp |-> Resp("receive", TRUE, <<"Received", "nan", "KG (loss", 0, "KG).">>)]

FormIssue ==
    /\ Len(logs) - Len(SeedLogs) < MaxForm
    /\ \E barcode_text \in {BatchName(1), BatchName(2)}, stamp \in Stamps :
          \E r \in {scan(barcode_text, "MIXING", "MOVE_NEXT", 1004, 1004, 0, SeedNow + 1, 0, stamp, 0)} :
             Apply(r)

FormReceive ==
    \E transfer_barcode \in TransferCodes, receiving_process \in {"EXTRUDER", "MIXING"}, qty \in FormQtys :
       \E r \in {receive_next_form(transfer_barcode, receiving_process, qty, SeedNow + 2)} :
          Apply(r)

NextForm ==
    \/ FormIssue
    \/ FormReceive

SpecForm == Init /\ [][NextForm]_vars

(* ------------------------------------------------------------------ *)
(* The forward run of one order line: the line is created, then a job   *)
(* from it, then a batch of the job, then the batch is scanned with     *)
(* MOVE_NEXT at the stage it is at, with scan times that never go back  *)
(* ------------------------------------------------------------------ *)

(* the times the requests of the forward run carry *)
ForwardClock == {SeedNow + 1, SeedNow + 2, SeedNow + 3}

(* the order line of the run, 0 before it is created *)
ForwardLine == IF Len(items) > Len(SeedItems) THEN Len(SeedItems) + 1 ELSE 0

(* the batches of the job of the line of the run *)
ForwardBatches ==
    IF ForwardLine = 0 \/ items[ForwardLine].planned_job_id = NULL THEN {}
    ELSE {b \in 1..Len(batches) : batches[b].job_id = items[ForwardLine].planned_job_id[1]}

ForwardItem ==
    /\ ForwardLine = 0
    /\ \E r \in {customer_file_detail(1, 1, 180000, SeedNow + 1)} : Apply(r)

ForwardJob ==
    /\ ForwardLine # 0
    /\ items[ForwardLine].planned_job_id = NULL
    /\ \E r \in {create_job(JobName(Len(jobs) + 1), ForwardLine, TRUE, SeedNow + 1)} : Apply(r)

ForwardBatch ==
    /\ ForwardLine # 0
    /\ items[ForwardLine].planned_job_id # NULL
    /\ ForwardBatches = {}
    /\ \E now \in ForwardClock :
          \E r \in {create_batch(BatchName(Len(batches) + 1), items[ForwardLine].planned_job_id[1], 500000, "", now)} :
             Apply(r)

ForwardScan ==
    \E b \in ForwardBatches, scan_time \in ForwardClock :
       /\ InFlow(batches[b].current_process)
       /\ \A l \in 1..Len(logs) : logs[l].batch_id = b => logs[l].scan_time <= scan_time
       /\ \E r \in {scan(batches[b].batch_no, batches[b].current_process, "MOVE_NEXT", 1004, 1004, 0, scan_time, 0, 1, 0)} :
             Apply(r)

NextForward ==
    \/ ForwardItem
    \/ ForwardJob
    \/ ForwardBatch
    \/ ForwardScan

SpecForward == Init /\ [][NextForward]_vars

(* ------------------------------------------------------------------ *)
(* Properties of the stage state machine and of the transfer ledger    *)
(* ------------------------------------------------------------------ *)

(* position of a stage value in the flow: NOT_STARTED before MIXING, *)
(* COMPLETED after STORE_RECEIVING                                    *)
StagePos(p) ==
    IF InFlow(p) THEN FlowIndex(p) + 1
    ELSE IF p = "COMPLETED" THEN Len(PROCESS_FLOW) + 1
    ELSE 0

StageDomain == FlowSet \cup {"NOT_STARTED", "COMPLETED"}

(* the batch references and transfer codes every reachable state is probed with *)
ProbeBatches == {ref \in BatchRefs : FindBatch(batches, ref) # 0}

ProbeNow == SeedNow + 2

(* a probed request leaves these tables alone *)
SameStore(r) ==
    /\ r.batches = batches
    /\ r.logs = logs
    /\ r.labels = labels
    /\ r.items = items
    /\ r.jobs = jobs
    /\ r.planner = planner
    /\ r.events = events

(* C1: under scans and receipts the position of a batch's current_process *)
(* in the flow (COMPLETED last) never decreases from one state to the     *)
(* next.                                                                  *)
StageNeverDecreases ==
    [][\A b \in 1..Len(batches) :
          StagePos(batches'[b].current_process) >= StagePos(batches[b].current_process)]_vars

(* C2: once a REJECTED scan has put a batch on HOLD at a stage, no later *)
(* scan or receipt changes its status or its current_process.            *)
HoldIsTerminal ==
    [][\A b \in 1..Len(batches) :
          batches[b].status = "HOLD" =>
             /\ batches'[b].status = "HOLD"
             /\ batches'[b].current_process = batches[b].current_process]_vars

(* C3: in every reachable state every batch's current_process is one of *)
(* the seven stages, NOT_STARTED or COMPLETED, and every label's        *)
(* from_process and to_process is one of the seven stages.              *)
StagesInDomain ==
    /\ \A b \in 1..Len(batches) : batches[b].current_process \in StageDomain
    /\ \A l \in 1..Len(labels) :
          /\ labels[l].from_process \in FlowSet
          /\ labels[l].to_process \in FlowSet

(* a label has been issued and a scan naming a stage outside the flow was refused *)
StagesInDomainWitness ==
    /\ Len(labels) > 0
    /\ resp = Resp("scan", FALSE, <<"Invalid process name.">>)

(* C4: a label is ISSUED or RECEIVED, and a receipt of a label that is   *)
(* not ISSUED, whatever stage and quantity it carries, fails with the    *)
(* already-received error and leaves every label and every batch as it   *)
(* was; no scan touches a label that exists.  So a label goes from       *)
(* ISSUED to RECEIVED at most once and stays RECEIVED.                   *)
ReceivedOnce ==
    /\ \A l \in 1..Len(labels) : labels[l].status \in {"ISSUED", "RECEIVED"}
    /\ \A ref \in ProbeBatches, process_name \in FlowSet, next_action \in NEXT_ACTIONS :
          LET s == scan(ref, process_name, next_action, 1004, 1004, 0, ProbeNow, 0, 1, 0)
          IN SubSeq(s.labels, 1, Len(labels)) = labels
    /\ \A l \in 1..Len(labels) :
          labels[l].status # "ISSUED" =>
             \A receiving_process \in AllProcesses, received_qty_kg \in AllRecvQtys :
                LET f == receive_next_process_label(labels, batches, labels[l].transfer_barcode,
                                                    receiving_process, received_qty_kg, ProbeNow)
                    h == receive_next(labels[l].transfer_barcode, receiving_process,
                                      received_qty_kg, ProbeNow)
                IN /\ ~f.ok
                   /\ f.msg = MsgAlreadyReceived
                   /\ f.labels = labels
                   /\ f.batches = batches
                   /\ ~h.resp.ok
                   /\ SameStore(h)

(* a second receipt of a RECEIVED label was refused as already received *)
ReceivedOnceWitness ==
    /\ resp = Resp("receive", FALSE, MsgAlreadyReceived)
    /\ \E l \in 1..Len(labels) : labels[l].status = "RECEIVED"

(* C5: a receipt of an ISSUED label at a stage other than the label's    *)
(* to_process fails with the stage-mismatch error, a receipt of a code   *)
(* that names no label fails with the not-found error, and neither       *)
(* changes any label or batch.                                           *)
WrongStageOrUnknownRefused ==
    /\ \A l \in 1..Len(labels) :
          labels[l].status = "ISSUED" =>
             \A receiving_process \in AllProcesses \ {labels[l].to_process},
                received_qty_kg \in AllRecvQtys :
                LET f == receive_next_process_label(labels, batches, labels[l].transfer_barcode,
                                                    receiving_process, received_qty_kg, ProbeNow)
                    h == receive_next(labels[l].transfer_barcode, receiving_process,
                                      received_qty_kg, ProbeNow)
                IN /\ ~f.ok
                   /\ f.msg = MsgStageMismatch(labels[l].to_process, receiving_process)
                   /\ f.labels = labels
                   /\ f.batches = batches
                   /\ ~h.resp.ok
                   /\ SameStore(h)
    /\ \A receiving_process \in AllProcesses, received_qty_kg \in AllRecvQtys :
          LET f == receive_next_process_label(labels, batches, UnknownBarcode,
                                              receiving_process, received_qty_kg, ProbeNow)
              h == receive_next(UnknownBarcode, receiving_process, received_qty_kg, ProbeNow)
          IN /\ ~f.ok
             /\ f.msg = MsgNotFound
             /\ f.labels = labels
             /\ f.batches = batches
             /\ ~h.resp.ok
             /\ SameStore(h)

(* a receipt at the wrong stage was refused and the label is still ISSUED *)
WrongStageOrUnknownRefusedWitness ==
    \E l \in 1..Len(labels), receiving_process \in FlowSet :
       /\ labels[l].status = "ISSUED"
       /\ receiving_process # labels[l].to_process
       /\ resp = Resp("receive", FALSE, MsgStageMismatch(labels[l].to_process, receiving_process))

LossIsClampedDifference ==
    \A l \in 1..Len(labels) :
       /\ labels[l].qty_loss_kg >= 0
       /\ labels[l].status = "RECEIVED" =>
             /\ labels[l].received_qty_kg # NULL
             /\ labels[l].qty_loss_kg = Max0(labels[l].issued_qty_kg - labels[l].received_qty_kg[1])

(* a loss that is max(0, the difference rounded to 0.01 kg): zero for a  *)
(* difference that is not positive, else the multiple of 0.01 kg nearest *)
(* to the difference                                                     *)
IsRoundedLoss(loss, issued_qty_kg, received_qty_kg) ==
    LET d == issued_qty_kg - received_qty_kg
    IN /\ loss >= 0
       /\ loss % 10 = 0
       /\ d <= 0 => loss = 0
       /\ d > 0 => (loss - d <= 5 /\ d - loss <= 5)

(* C7, amended: a successful receipt sets the label's received_qty to    *)
(* the quantity given, its status to RECEIVED and its loss to            *)
(* max(0, round(issued_qty - received_qty, 2)); every RECEIVED label of  *)
(* a reachable state carries that loss, and no label has a negative      *)
(* loss.                                                                 *)
LossIsRoundedClampedDifference ==
    /\ \A l \in 1..Len(labels) :
          /\ labels[l].qty_loss_kg >= 0
          /\ labels[l].status = "RECEIVED" =>
                /\ labels[l].received_qty_kg # NULL
                /\ IsRoundedLoss(labels[l].qty_loss_kg, labels[l].issued_qty_kg,
                                 labels[l].received_qty_kg[1])
    /\ \A l \in 1..Len(labels), received_qty_kg \in AllRecvQtys :
          labels[l].status = "ISSUED" =>
             LET f == receive_next_process_label(labels, batches, labels[l].transfer_barcode,
                                                 labels[l].to_process, received_qty_kg, ProbeNow)
             IN /\ f.ok
                /\ f.labels[l].received_qty_kg = Some(received_qty_kg)
                /\ f.labels[l].status = "RECEIVED"
                /\ IsRoundedLoss(f.labels[l].qty_loss_kg, labels[l].issued_qty_kg, received_qty_kg)

(* a label was received short by an amount that is not a whole 0.01 kg, *)
(* so that its loss is not the plain difference                         *)
LossIsRoundedClampedDifferenceWitness ==
    \E l \in 1..Len(labels) :
       /\ labels[l].status = "RECEIVED"
       /\ labels[l].issued_qty_kg > labels[l].received_qty_kg[1]
       /\ labels[l].qty_loss_kg # labels[l].issued_qty_kg - labels[l].received_qty_kg[1]

(* C8: a scan that passes validation (it appends a process_logs row)     *)
(* with MOVE_NEXT at a stage S other than STORE_RECEIVING and good       *)
(* quantity g leaves the batch at the stage after S with status OPEN and *)
(* adds exactly one label, from S to the stage after S, with issued      *)
(* quantity g and status ISSUED.                                         *)
MoveNextIssuesOneLabel ==
    [][(/\ Len(logs') = Len(logs) + 1
        /\ logs'[Len(logs')].next_action = "MOVE_NEXT"
        /\ logs'[Len(logs')].process_name # PROCESS_FLOW[Len(PROCESS_FLOW)]) =>
          LET lg == logs'[Len(logs')]
              succ == FlowAt(FlowIndex(lg.process_name) + 1)
          IN /\ batches'[lg.batch_id].current_process = succ
             /\ batches'[lg.batch_id].status = "OPEN"
             /\ Len(labels') = Len(labels) + 1
             /\ SubSeq(labels', 1, Len(labels)) = labels
             /\ labels'[Len(labels')].batch_id = lg.batch_id
             /\ labels'[Len(labels')].from_process = lg.process_name
             /\ labels'[Len(labels')].to_process = succ
             /\ labels'[Len(labels')].issued_qty_kg = lg.good_qty_kg
             /\ labels'[Len(labels')].status = "ISSUED"]_vars

(* C9: a scan of a batch at STORE_RECEIVING with MOVE_NEXT or REWORK     *)
(* that passes validation leaves the batch with current_process          *)
(* COMPLETED and status COMPLETED and issues no label; with no machine   *)
(* selected every such scan passes validation.                           *)
LastStageCompletes ==
    \A ref \in ProbeBatches, next_action \in {"MOVE_NEXT", "REWORK"},
       good_qty_kg \in AllGoodQtys, machine_id \in MachineInputs :
       LET s == scan(ref, PROCESS_FLOW[Len(PROCESS_FLOW)], next_action, 1004, good_qty_kg, 0,
                     ProbeNow, machine_id, 1, 0)
           b == FindBatch(batches, ref)
       IN /\ machine_id = 0 => Len(s.logs) = Len(logs) + 1
          /\ Len(s.logs) = Len(logs) + 1 =>
                /\ s.resp.ok
                /\ s.batches[b].current_process = "COMPLETED"
                /\ s.batches[b].status = "COMPLETED"
                /\ s.labels = labels

(* the last request was a MOVE_NEXT scan at STORE_RECEIVING and its batch is COMPLETED *)
LastStageCompletesWitness ==
    /\ resp.op = "scan"
    /\ resp.ok
    /\ Len(logs) > Len(SeedLogs)
    /\ logs[Len(logs)].process_name = PROCESS_FLOW[Len(PROCESS_FLOW)]
    /\ logs[Len(logs)].next_action = "MOVE_NEXT"
    /\ batches[logs[Len(logs)].batch_id].current_process = "COMPLETED"
    /\ batches[logs[Len(logs)].batch_id].status = "COMPLETED"
    /\ labels = <<>>

(* C10: a scan of a batch at any stage S with REJECTED that passes       *)
(* validation leaves the batch with status HOLD and current_process S,   *)
(* issues no label and sets the status of the order line linked to the   *)
(* batch's job, if there is one, to HOLD; with no machine selected every *)
(* such scan passes validation.                                          *)
RejectedHolds ==
    \A ref \in ProbeBatches, process_name \in FlowSet, good_qty_kg \in {0, 1004},
       machine_id \in MachineInputs :
       LET s == scan(ref, process_name, "REJECTED", 1004, good_qty_kg, 1004 - good_qty_kg,
                     ProbeNow, machine_id, 1, 0)
           b == FindBatch(batches, ref)
           linked == jobs[batches[b].job_id].source_item_id
       IN /\ machine_id = 0 => Len(s.logs) = Len(logs) + 1
          /\ Len(s.logs) = Len(logs) + 1 =>
                /\ s.resp.ok
                /\ s.batches[b].status = "HOLD"
                /\ s.batches[b].current_process = process_name
                /\ s.labels = labels
                /\ linked # NULL => s.items[linked[1]].status = "HOLD"

(* the last request was a REJECTED scan: its batch is on HOLD at the    *)
(* scanned stage and the linked order line is on HOLD                   *)
RejectedHoldsWitness ==
    /\ resp.op = "scan"
    /\ resp.ok
    /\ Len(logs) > Len(SeedLogs)
    /\ logs[Len(logs)].next_action = "REJECTED"
    /\ batches[logs[Len(logs)].batch_id].status = "HOLD"
    /\ batches[logs[Len(logs)].batch_id].current_process = logs[Len(logs)].process_name
    /\ jobs[batches[logs[Len(logs)].batch_id].job_id].source_item_id # NULL
    /\ items[jobs[batches[logs[Len(logs)].batch_id].job_id].source_item_id[1]].status = "HOLD"
    /\ labels = <<>>

(* C11: a scan adds a label to the ledger if and only if it passes      *)
(* validation (it appends a process_logs row) with next_action MOVE_NEXT *)
(* at a stage other than STORE_RECEIVING; every other scan leaves the    *)
(* ledger as it was.                                                     *)
LabelIffMoveNext ==
    [][resp'.op = "scan" =>
          LET issues == /\ Len(logs') = Len(logs) + 1
                        /\ logs'[Len(logs')].next_action = "MOVE_NEXT"
                        /\ logs'[Len(logs')].process_name # PROCESS_FLOW[Len(PROCESS_FLOW)]
          IN /\ issues => (Len(labels') = Len(labels) + 1 /\ SubSeq(labels', 1, Len(labels)) = labels)
             /\ ~issues => labels' = labels]_vars

(* the batch references a scan is probed with: those of the batches and one of no batch *)
ProbeRefs == BatchRefs \cup {"NOPE"}

(* C12: a scan whose batch reference matches no batch, whose stage is   *)
(* not in the stage sequence or whose next_action is not MOVE_NEXT,     *)
(* REJECTED or REWORK is refused and leaves every table as it was; so   *)
(* no scan of a stage outside the sequence reaches update_batch_stage.  *)
InvalidScanChangesNothing ==
    \A ref \in ProbeRefs, process_name \in AllProcesses, next_action \in ActionInputs :
       (\/ FindBatch(batches, ref) = 0
        \/ process_name \notin FlowSet
        \/ next_action \notin NEXT_ACTIONS) =>
          LET s == scan(ref, process_name, next_action, 1004, 1004, 0, ProbeNow, 0, 1, 0)
          IN /\ ~s.resp.ok
             /\ SameStore(s)

(* after a scan was recorded, a scan with an unknown next_action was refused *)
InvalidScanChangesNothingWitness ==
    /\ Len(logs) > Len(SeedLogs)
    /\ resp = Resp("scan", FALSE, <<"Invalid next action.">>)

(* C14: issuing a label for an existing batch always succeeds: whatever *)
(* the two clock readings are, create_next_process_label raises no      *)
(* uniqueness error, stores one new label and returns its code; and no  *)
(* two labels of the ledger share a transfer code.                      *)
IssueAlwaysSucceeds ==
    /\ \A l1, l2 \in 1..Len(labels) :
          l1 # l2 => labels[l1].transfer_barcode # labels[l2].transfer_barcode
    /\ \A b \in 1..Len(batches), i \in 1..(Len(PROCESS_FLOW) - 1), stamp \in Stamps, usec \in Usecs :
          LET c == create_next_process_label(labels, batches, b, PROCESS_FLOW[i], PROCESS_FLOW[i + 1],
                                             1004, stamp, usec)
          IN /\ ~c.raised
             /\ c.barcode # NULL
             /\ Len(c.labels) = Len(labels) + 1
             /\ c.labels[Len(c.labels)].transfer_barcode = c.barcode[1]

(* C13: every commit that adds a process_logs row also applies that      *)
(* scan's stage update to the batch, and every commit that turns a label *)
(* RECEIVED also pulls the label's batch to the receiving stage with     *)
(* status OPEN: no state between two commits shows the one without the   *)
(* other.                                                                *)
CompositeIsAtomic ==
    [][/\ Len(logs') = Len(logs) + 1 =>
             LET lg == logs'[Len(logs')]
             IN batches' = update_batch_stage(batches, lg.batch_id, lg.process_name, lg.next_action)
       /\ \A l \in 1..Len(labels) :
             (labels[l].status = "ISSUED" /\ labels'[l].status = "RECEIVED") =>
                /\ batches'[labels[l].batch_id].current_process = labels[l].to_process
                /\ batches'[labels[l].batch_id].status = "OPEN"]_vars

(* ------------------------------------------------------------------ *)
(* Properties of the snapshot of an order line                         *)
(* ------------------------------------------------------------------ *)

(* the batches of the job of order line i, and the most recently created of them *)
LineBatches(i) ==
    IF items[i].planned_job_id = NULL THEN {}
    ELSE {b \in 1..Len(batches) : batches[b].job_id = items[i].planned_job_id[1]}

LineBatch(i) == CHOOSE b \in LineBatches(i) : \A c \in LineBatches(i) : c <= b

(* the scans of batch b, and the latest of them: by scan time, the later row on a tie *)
BatchScans(b) == {l \in 1..Len(logs) : logs[l].batch_id = b}

LatestScan(b) ==
    CHOOSE l \in BatchScans(b) :
       \A k \in BatchScans(b) :
          logs[k].scan_time < logs[l].scan_time \/ (logs[k].scan_time = logs[l].scan_time /\ k <= l)

LinePlanner(i) == {q \in 1..Len(planner) : planner[q].item_id = i}

Snapshot(i) == get_item_tracking_snapshot(Store, i)

(* the tables of the store a request leaves *)
StoreOf(r) ==
    [batches |-> r.batches, logs |-> r.logs, labels |-> r.labels, items |-> r.items,
     jobs |-> r.jobs, planner |-> r.planner, events |-> r.events]

(* C15: a request for the snapshot of an order line changes no table,    *)
(* and what it returns is the snapshot of the store it leaves, so that a *)
(* second request with no write in between returns the same status,      *)
(* stage, progress, risk and last_update; a request for an order line    *)
(* that does not exist changes nothing either.                           *)
SnapshotIsPureRead ==
    /\ \A i \in 1..(Len(items) + 1) :
          LET r == item_tracker_page(i)
          IN /\ SameStore(r)
             /\ i <= Len(items) =>
                   /\ r.resp.ok
                   /\ r.resp.msg = SnapshotMsg(i, Snapshot(i))
                   /\ r.resp.msg = SnapshotMsg(i, get_item_tracking_snapshot(StoreOf(r), i))
    /\ (resp.op = "snapshot" /\ resp.ok) =>
          \E i \in 1..Len(items) : resp.msg = SnapshotMsg(i, Snapshot(i))

(* the snapshot of an order line was returned after requests had written to the store *)
SnapshotIsPureReadWitness ==
    /\ resp.op = "snapshot"
    /\ resp.ok
    /\ Len(events) > Len(SeedEvents)
    /\ \E i \in 1..Len(items) : resp.msg = SnapshotMsg(i, Snapshot(i))

(* round(n / d) for positive n and d that never tie *)
RoundDiv(n, d) == (2 * n + d) \div (2 * d)

(* C16: for an order line whose latest batch is not COMPLETED and whose  *)
(* latest scan is at the stage with 0-based index i, the snapshot's      *)
(* progress_pct is round(100 * (i + 1) / 7) clamped to 100: 14, 29, 43,  *)
(* 57, 71, 86, 100.                                                      *)
ProgressIsRoundedShare ==
    \A i \in 1..Len(items) :
       (/\ LineBatches(i) # {}
        /\ batches[LineBatch(i)].status # "COMPLETED"
        /\ BatchScans(LineBatch(i)) # {}
        /\ InFlow(logs[LatestScan(LineBatch(i))].process_name)) =>
          LET idx == FlowIndex(logs[LatestScan(LineBatch(i))].process_name)
              pct == RoundDiv(100 * (idx + 1), Len(PROCESS_FLOW))
          IN Snapshot(i).progress_pct = IF pct < 100 THEN pct ELSE 100

(* C17: whenever the most recently created batch of an order line's job  *)
(* is COMPLETED, the snapshot has status COMPLETED, stage                *)
(* STORE_RECEIVING and progress 100, whatever the planner status, the    *)
(* stored line status and the latest scan are.                           *)
CompletedBatchWins ==
    \A i \in 1..Len(items) :
       (LineBatches(i) # {} /\ batches[LineBatch(i)].status = "COMPLETED") =>
          /\ Snapshot(i).status = "COMPLETED"
          /\ Snapshot(i).current_stage = "STORE_RECEIVING"
          /\ Snapshot(i).progress_pct = 100

(* an order line whose batch is COMPLETED while its latest scan is a     *)
(* REJECTED one at another stage and its planner status is not COMPLETED *)
CompletedBatchWinsWitness ==
    \E i \in 1..Len(items) :
       /\ LineBatches(i) # {}
       /\ batches[LineBatch(i)].status = "COMPLETED"
       /\ BatchScans(LineBatch(i)) # {}
       /\ logs[LatestScan(LineBatch(i))].next_action = "REJECTED"
       /\ logs[LatestScan(LineBatch(i))].process_name # "STORE_RECEIVING"
       /\ \E q \in LinePlanner(i) : planner[q].planner_status # "COMPLETED"
       /\ Snapshot(i).status = "COMPLETED"

(* C18: whenever the latest scan of an order line's latest batch is a    *)
(* REJECTED one and that batch is not COMPLETED, the snapshot's status   *)
(* is HOLD, whatever the batch's own status is, and its stage is that    *)
(* scan's stage.                                                         *)
RejectedScanHolds ==
    \A i \in 1..Len(items) :
       (/\ LineBatches(i) # {}
        /\ batches[LineBatch(i)].status # "COMPLETED"
        /\ BatchScans(LineBatch(i)) # {}
        /\ logs[LatestScan(LineBatch(i))].next_action = "REJECTED") =>
          /\ Snapshot(i).status = "HOLD"
          /\ Snapshot(i).current_stage = logs[LatestScan(LineBatch(i))].process_name

(* an order line whose latest scan is REJECTED and whose batch a later   *)
(* receipt of a label has re-opened at another stage                     *)
RejectedScanHoldsWitness ==
    \E i \in 1..Len(items) :
       /\ LineBatches(i) # {}
       /\ batches[LineBatch(i)].status = "OPEN"
       /\ BatchScans(LineBatch(i)) # {}
       /\ logs[LatestScan(LineBatch(i))].next_action = "REJECTED"
       /\ batches[LineBatch(i)].current_process # logs[LatestScan(LineBatch(i))].process_name
       /\ \E l \in 1..Len(labels) : labels[l].batch_id = LineBatch(i) /\ labels[l].status = "RECEIVED"
       /\ resp.op = "receive"
       /\ Snapshot(i).status = "HOLD"

(* C19: for an order line whose latest batch has no scans and is not     *)
(* COMPLETED, the snapshot's stage is the batch's current_process, its   *)
(* status is IN_PRODUCTION if the batch is OPEN and HOLD if it is HOLD,  *)
(* and its progress is 30, whatever the planner status and the stored    *)
(* line status are.                                                      *)
UnscannedBatchView ==
    \A i \in 1..Len(items) :
       (/\ LineBatches(i) # {}
        /\ batches[LineBatch(i)].status # "COMPLETED"
        /\ BatchScans(LineBatch(i)) = {}) =>
          /\ Snapshot(i).current_stage = batches[LineBatch(i)].current_process
          /\ batches[LineBatch(i)].status = "OPEN" => Snapshot(i).status = "IN_PRODUCTION"
          /\ batches[LineBatch(i)].status = "HOLD" => Snapshot(i).status = "HOLD"
          /\ batches[LineBatch(i)].status \in {"OPEN", "HOLD"}
          /\ Snapshot(i).progress_pct = 30

(* an order line with a batch that was never scanned, while its planner *)
(* row and its stored status say something else than IN_PRODUCTION      *)
UnscannedBatchViewWitness ==
    \E i \in 1..Len(items) :
       /\ LineBatches(i) # {}
       /\ BatchScans(LineBatch(i)) = {}
       /\ batches[LineBatch(i)].status = "OPEN"
       /\ items[i].status # "IN_PRODUCTION"
       /\ \E q \in LinePlanner(i) : planner[q].planner_status # "IN_PRODUCTION"
       /\ Snapshot(i).status = "IN_PRODUCTION"

(* the status an order line without a batch starts from *)
BaseStatus(i) ==
    IF LinePlanner(i) # {} THEN planner[CHOOSE q \in LinePlanner(i) : TRUE].planner_status
    ELSE IF items[i].status # "" THEN items[i].status
    ELSE "WAITING_PLANNING"

(* C20: for an order line with no batch: without a job the snapshot has  *)
(* the planner status if there is a planner update, else the line's      *)
(* stored status, else WAITING_PLANNING, with stage ORDER RECEIVED and   *)
(* progress 5; with a job it has stage JOB CREATED, progress 18 and      *)
(* status JOB_CREATED if that base status is WAITING_PLANNING or         *)
(* PENDING_JOB, else the base status.                                    *)
NoBatchView ==
    \A i \in 1..Len(items) :
       LineBatches(i) = {} =>
          IF items[i].planned_job_id = NULL
          THEN /\ Snapshot(i).status = BaseStatus(i)
               /\ Snapshot(i).current_stage = "ORDER RECEIVED"
               /\ Snapshot(i).progress_pct = 5
          ELSE /\ Snapshot(i).current_stage = "JOB CREATED"
               /\ Snapshot(i).progress_pct = 18
               /\ BaseStatus(i) \in {"WAITING_PLANNING", "PENDING_JOB"} =>
                     Snapshot(i).status = "JOB_CREATED"
               /\ BaseStatus(i) \notin {"WAITING_PLANNING", "PENDING_JOB"} =>
                     Snapshot(i).status = BaseStatus(i)

(* a new order line with neither planner update nor job, next to an     *)
(* order line that has a job and no batch                               *)
NoBatchViewWitness ==
    /\ \E i \in 1..Len(items) :
          /\ items[i].planned_job_id = NULL
          /\ LinePlanner(i) = {}
          /\ Snapshot(i).status = "PENDING_JOB"
    /\ \E i \in 1..Len(items) :
          /\ items[i].planned_job_id # NULL
          /\ LineBatches(i) = {}
          /\ Snapshot(i).current_stage = "JOB CREATED"

(* status, stage and progress of a snapshot *)
SnapshotKey(snap) == <<snap.status, snap.current_stage, snap.progress_pct>>

(* the batches of the job of order line i that are not its latest one *)
OlderBatches(i) == LineBatches(i) \ {LineBatch(i)}

(* C21: for an order line whose job has a batch, the snapshot's status,  *)
(* stage and progress depend on the job's most recently created batch    *)
(* and its scans only: a planner update of the line, another stored      *)
(* status of the line, and a scan or a receipt of a label on an older    *)
(* batch of the job leave the three fields as they are.                  *)
SnapshotReadsLatestBatchOnly ==
    \A i \in 1..Len(items) :
       LineBatches(i) # {} =>
          /\ \A planner_status \in {"WAITING_PLANNING", "HOLD", "COMPLETED"}, ready_at \in {NULL, Some(FileDue(1))} :
                LET r == item_tracker_detail(i, planner_status, ready_at, ProbeNow)
                IN /\ r.resp.ok
                   /\ SnapshotKey(get_item_tracking_snapshot(StoreOf(r), i)) = SnapshotKey(Snapshot(i))
          /\ \A status \in {"", "PENDING_JOB", "HOLD", "COMPLETED"} :
                SnapshotKey(get_item_tracking_snapshot(
                               [Store EXCEPT !.items = [items EXCEPT ![i].status = status]], i))
                   = SnapshotKey(Snapshot(i))
          /\ \A b \in OlderBatches(i) :
                /\ \A process_name \in {"MIXING", "STORE_RECEIVING"}, next_action \in {"MOVE_NEXT", "REJECTED"} :
                      LET r == scan(batches[b].batch_no, process_name, next_action, 1004, 1004, 0,
                                    ProbeNow, 0, 1, 0)
                      IN /\ Len(r.logs) = Len(logs) + 1
                         /\ SnapshotKey(get_item_tracking_snapshot(StoreOf(r), i)) = SnapshotKey(Snapshot(i))
                /\ \A l \in 1..Len(labels) :
                      (labels[l].batch_id = b /\ labels[l].status = "ISSUED") =>
                         LET r == receive_next(labels[l].transfer_barcode, labels[l].to_process, 1004, ProbeNow)
                         IN /\ r.resp.ok
                            /\ SnapshotKey(get_item_tracking_snapshot(StoreOf(r), i)) = SnapshotKey(Snapshot(i))

(* an order line with two batches whose older batch was scanned and had  *)
(* a label received after the newer one was created, while the snapshot  *)
(* still shows the newer, unscanned batch                                *)
SnapshotReadsLatestBatchOnlyWitness ==
    \E i \in 1..Len(items) :
       /\ LineBatches(i) # {}
       /\ OlderBatches(i) # {}
       /\ BatchScans(LineBatch(i)) = {}
       /\ \E b \in OlderBatches(i) : \E l \in BatchScans(b) : l > Len(SeedLogs)
       /\ resp.op = "scan"
       /\ resp.ok
       /\ Snapshot(i).current_stage = batches[LineBatch(i)].current_process
       /\ Snapshot(i).progress_pct = 30

(* ------------------------------------------------------------------ *)
(* Properties of the risk flag and of the planner updates              *)
(* ------------------------------------------------------------------ *)

(* ready_at of the planner row of order line i, NULL without a row *)
LineReady(i) ==
    IF LinePlanner(i) = {} THEN NULL ELSE planner[CHOOSE q \in LinePlanner(i) : TRUE].ready_at

(* two times on the same calendar date *)
SameDate(a, b) == a \div DayMinutes = b \div DayMinutes

(* the chain of the risk flag over a due time and a ready time, each NULL when there is none *)
RiskOf(due_dt, ready_dt, status) ==
    LET both == due_dt # NULL /\ ready_dt # NULL
    IN IF both /\ ready_dt[1] > due_dt[1] THEN "RISK"
       ELSE IF both /\ SameDate(ready_dt[1], due_dt[1]) THEN "TIGHT"
       ELSE IF due_dt # NULL /\ ready_dt = NULL /\ status # "COMPLETED" THEN "CHECK"
       ELSE "ON_TRACK"

(* C22: the snapshot's risk is an ordered chain over the parsed due date *)
(* and the parsed ready time of the planner: RISK if both exist and      *)
(* ready is after due; else TIGHT if both exist and are on the same      *)
(* calendar date; else CHECK if there is a due date, no ready time and   *)
(* the status is not COMPLETED; else ON_TRACK.                           *)
RiskIsOrderedChain ==
    /\ \A i \in 1..Len(items) :
          Snapshot(i).risk = RiskOf(_parse_dt(Some(FileDue(items[i].file_id))), _parse_dt(LineReady(i)),
                                    Snapshot(i).status)
    /\ \A due_date \in {NULL, Some(FileDue(1))}, ready_at \in ReadyInputs, status \in {"HOLD", "COMPLETED"} :
          SnapshotRisk(due_date, ready_at, status) = RiskOf(_parse_dt(due_date), _parse_dt(ready_at), status)

(* after a planner update, one order line is at RISK (ready at 10:00 on  *)
(* the due date), one is TIGHT and one is ON_TRACK                       *)
RiskIsOrderedChainWitness ==
    /\ resp = Resp("item_tracker_detail", TRUE, <<"Planner update saved.">>)
    /\ \E i \in 1..Len(items) :
          /\ Snapshot(i).risk = "RISK"
          /\ SameDate(LineReady(i)[1], FileDue(items[i].file_id))
    /\ \E i \in 1..Len(items) : Snapshot(i).risk = "TIGHT"
    /\ \E i \in 1..Len(items) : Snapshot(i).risk = "ON_TRACK"

(* C23: whenever the due date of the order and the planner's ready_at    *)
(* are on the same calendar date, the snapshot's risk is TIGHT, whatever *)
(* time of day ready_at carries.                                         *)
SameDateIsTight ==
    \A i \in 1..Len(items) :
       (/\ _parse_dt(LineReady(i)) # NULL
        /\ SameDate(LineReady(i)[1], FileDue(items[i].file_id))) =>
          Snapshot(i).risk = "TIGHT"

(* C24: there is at most one planner row per order line, and right after *)
(* a planner update of a line with status s the planner row of the line  *)
(* has planner_status s and the line's stored status is s.               *)
OnePlannerRowPerLine ==
    /\ \A i \in 1..Len(items) : Cardinality(LinePlanner(i)) <= 1
    /\ \A i \in 1..Len(items), planner_status \in ITEM_STATUS_CHOICES :
          LET r == item_tracker_detail(i, planner_status, NULL, ProbeNow)
              rows == {q \in 1..Len(r.planner) : r.planner[q].item_id = i}
          IN /\ r.resp.ok
             /\ Cardinality(rows) = 1
             /\ \A q \in rows : r.planner[q].planner_status = planner_status
             /\ r.items[i].status = planner_status
             /\ \A j \in 1..Len(items) : j # i => r.items[j] = items[j]

(* a new order line got its first planner row by a planner update with  *)
(* status HOLD, which is now also the line's stored status              *)
OnePlannerRowPerLineWitness ==
    /\ resp = Resp("item_tracker_detail", TRUE, <<"Planner update saved.">>)
    /\ Len(items) > Len(SeedItems)
    /\ Len(planner) = Len(SeedPlanner) + 1
    /\ planner[Len(planner)].item_id = Len(items)
    /\ planner[Len(planner)].planner_status = "HOLD"
    /\ items[Len(items)].status = "HOLD"

(* ------------------------------------------------------------------ *)
(* Properties of the event ledger                                      *)
(* ------------------------------------------------------------------ *)

(* the events of one type of order line i, and the jobs, batches and scans made for it *)
ItemEvents(i, ty) == {e \in 1..Len(events) : events[e].item_id = i /\ events[e].event_type = ty}

ItemJobs(i) == {j \in 1..Len(jobs) : jobs[j].source_item_id = Some(i)}

ItemBatches(i) == {b \in 1..Len(batches) : batches[b].job_id \in ItemJobs(i)}

ItemLogs(i) == {l \in 1..Len(logs) : logs[l].batch_id \in ItemBatches(i)}

(* every event of order line i describes something the store holds *)
EventsDescribeStore(i) ==
    /\ Cardinality(ItemEvents(i, "JOB_CREATED")) <= Cardinality(ItemJobs(i))
    /\ ItemEvents(i, "JOB_CREATED") # {} => items[i].planned_job_id # NULL
    /\ Cardinality(ItemEvents(i, "BATCH_CREATED")) <= Cardinality(ItemBatches(i))
    /\ Cardinality(ItemEvents(i, "PROCESS_SCAN")) <= Cardinality(ItemLogs(i))
    /\ \A e \in ItemEvents(i, "PROCESS_SCAN") :
          \E l \in ItemLogs(i) : /\ logs[l].process_name = events[e].stage_name
                                 /\ logs[l].scan_time = events[e].event_time
    /\ \A e \in ItemEvents(i, "PLANNER_UPDATE") :
          \E q \in LinePlanner(i) :
             /\ planner[q].updated_at >= events[e].event_time
             /\ planner[q].updated_at = events[e].event_time =>
                   planner[q].planner_status = events[e].status_label

(* C25: the event ledger lags and never leads: in a planner update, a    *)
(* job creation, a batch creation and a scan the event is written after  *)
(* the rows it describes, so in every state, between the commits of a    *)
(* request too, each event's planner row, job link, batch or scan is in  *)
(* the store; and the commit that writes an event writes nothing else.   *)
EventsLagNeverLead ==
    /\ [](\A i \in 1..Len(items) : EventsDescribeStore(i))
    /\ [][events' # events => UNCHANGED <<batches, logs, labels, items, jobs, planner>>]_vars

(* between two commits of a job creation: the job is written and linked  *)
(* to its order line, and its JOB_CREATED event is not yet               *)
EventsLagNeverLeadWitness ==
    /\ pending # NULL
    /\ pending[1].op = "jobs"
    /\ pending[1].pc = "item"
    /\ items[pending[1].item_id].planned_job_id = Some(Len(jobs))
    /\ ItemEvents(pending[1].item_id, "JOB_CREATED") = {}

(* ------------------------------------------------------------------ *)
(* Properties of the reports                                            *)
(* ------------------------------------------------------------------ *)

(* what label l adds to the quantity held in stage S: its received       *)
(* quantity once it is RECEIVED there, less its issued quantity if it    *)
(* left from there                                                       *)
LabelShare(l, S) ==
    (IF labels[l].to_process = S /\ labels[l].status = "RECEIVED" THEN labels[l].received_qty_kg[1] ELSE 0)
    - (IF labels[l].from_process = S THEN labels[l].issued_qty_kg ELSE 0)

RECURSIVE HeldIn(_, _)
HeldIn(n, S) == IF n = 0 THEN 0 ELSE HeldIn(n - 1, S) + LabelShare(n, S)

(* C26 as stated: in_section(S) is the sum of received_qty over the      *)
(* RECEIVED labels into S less the sum of issued_qty over the labels     *)
(* out of S.                                                             *)
InSectionIsDifference ==
    \A S \in FlowSet : get_section_wip_summary(labels)[S].in_section_kg = HeldIn(Len(labels), S)

(* C26: in_section(S) is the sum of received_qty over the RECEIVED       *)
(* labels into S less the sum of issued_qty over the labels out of S,    *)
(* rounded to two decimals; a label that is ISSUED and not RECEIVED is   *)
(* subtracted from its from_process and not added to its to_process.     *)
InSectionIsRoundedDifference ==
    /\ \A S \in FlowSet :
          get_section_wip_summary(labels)[S].in_section_kg = Round2(HeldIn(Len(labels), S))
    /\ \A l \in 1..Len(labels) :
          labels[l].status = "ISSUED" =>
             /\ LabelShare(l, labels[l].from_process) = -labels[l].issued_qty_kg
             /\ LabelShare(l, labels[l].to_process) = 0

(* a label of 1.004 kg is in flight from MIXING to EXTRUDER: MIXING is   *)
(* reported 1.00 kg short and EXTRUDER holds nothing                     *)
InSectionIsRoundedDifferenceWitness ==
    /\ \E l \in 1..Len(labels) :
          /\ labels[l].status = "ISSUED"
          /\ labels[l].from_process = "MIXING"
          /\ labels[l].issued_qty_kg = 1004
    /\ get_section_wip_summary(labels)["MIXING"].in_section_kg = -1000
    /\ get_section_wip_summary(labels)["EXTRUDER"].in_section_kg = 0

(* the row of batch b in the variance report *)
VarianceRow(b) == get_batch_variance_row(batches, logs, b)

(* the earliest scan of batch b: by scan time, the earlier row on a tie *)
EarliestScan(b) ==
    CHOOSE l \in BatchScans(b) :
       \A k \in BatchScans(b) :
          logs[l].scan_time < logs[k].scan_time \/ (logs[l].scan_time = logs[k].scan_time /\ l <= k)

(* scan l comes before scan k in ascending (scan time, insertion order) *)
ScanBefore(l, k) ==
    logs[l].scan_time < logs[k].scan_time \/ (logs[l].scan_time = logs[k].scan_time /\ l < k)

(* the sum of reject_qty over the first n scans that are of batch b *)
RECURSIVE RejectSum(_, _)
RejectSum(n, b) ==
    IF n = 0 THEN 0
    ELSE RejectSum(n - 1, b) + (IF logs[n].batch_id = b THEN logs[n].reject_qty_kg ELSE 0)

(* C27 as stated: first_input is the earliest scan's input_qty (the      *)
(* planned input without scans), good_output the latest scan's good_qty  *)
(* (0 without scans), total_reject the sum of reject_qty, variance is    *)
(* first_input - good_output for every batch, and variance_pct is        *)
(* variance / first_input * 100 (to 0.01 %), null exactly when there are *)
(* no scans or first_input = 0.                                          *)
VarianceAsStated ==
    \A b \in 1..Len(batches) :
       LET row == VarianceRow(b)
           none == BatchScans(b) = {}
           first_input == IF none THEN batches[b].planned_input_kg ELSE logs[EarliestScan(b)].input_qty_kg
           good_output == IF none THEN 0 ELSE logs[LatestScan(b)].good_qty_kg
       IN /\ row.input_qty_kg = first_input
          /\ row.good_output_kg = good_output
          /\ row.total_reject_kg = RejectSum(Len(logs), b)
          /\ row.variance_kg = Some(first_input - good_output)
          /\ row.variance_pct = NULL <=> (none \/ first_input = 0)
          /\ row.variance_pct # NULL =>
                row.variance_pct[1] = PctOf(first_input - good_output, first_input)

(* C27: first_input is the earliest scan's input_qty (the planned input  *)
(* without scans), good_output the latest scan's good_qty (0 without     *)
(* scans), total_reject the sum of reject_qty rounded to two decimals;   *)
(* variance is first_input - good_output rounded to two decimals for a   *)
(* batch with scans and null for one without; variance_pct is that       *)
(* variance / first_input * 100 rounded to two decimals, null exactly    *)
(* when there are no scans or first_input = 0.                           *)
VarianceIsRounded ==
    \A b \in 1..Len(batches) :
       LET row == VarianceRow(b)
           none == BatchScans(b) = {}
           first_input == IF none THEN batches[b].planned_input_kg ELSE logs[EarliestScan(b)].input_qty_kg
           good_output == IF none THEN 0 ELSE logs[LatestScan(b)].good_qty_kg
       IN /\ row.input_qty_kg = first_input
          /\ row.good_output_kg = good_output
          /\ row.total_reject_kg = Round2(RejectSum(Len(logs), b))
          /\ row.variance_kg = IF none THEN NULL ELSE Some(Round2(first_input - good_output))
          /\ row.variance_pct = NULL <=> (none \/ first_input = 0)
          /\ row.variance_pct # NULL =>
                row.variance_pct[1] = PctOf(Round2(first_input - good_output), first_input)

(* a batch with a back-dated scan: its first_input comes from a scan     *)
(* recorded after the one its good_output comes from, its variance is    *)
(* not the plain difference and its rejects are rounded                  *)
VarianceIsRoundedWitness ==
    \E b \in 1..Len(batches) :
       /\ BatchScans(b) # {}
       /\ EarliestScan(b) > LatestScan(b)
       /\ VarianceRow(b).variance_kg # Some(VarianceRow(b).input_qty_kg - VarianceRow(b).good_output_kg)
       /\ VarianceRow(b).total_reject_kg # RejectSum(Len(logs), b)
       /\ VarianceRow(b).variance_pct # NULL

(* C28: for a batch with a planned input quantity and no scans the row   *)
(* of the variance report has good_output_kg = 0, variance_pct = null,   *)
(* the planned input quantity as its input, total reject 0 and no        *)
(* probable loss process.                                                *)
UnscannedBatchRow ==
    \A b \in 1..Len(batches) :
       (BatchScans(b) = {} /\ batches[b].planned_input_kg > 0) =>
          /\ VarianceRow(b).good_output_kg = 0
          /\ VarianceRow(b).variance_pct = NULL
          /\ VarianceRow(b).input_qty_kg = batches[b].planned_input_kg
          /\ VarianceRow(b).total_reject_kg = 0
          /\ VarianceRow(b).probable_loss_process = NULL
          /\ VarianceRow(b).process_count = 0

(* a batch was created with 500 kg planned and has not been scanned *)
UnscannedBatchRowWitness ==
    /\ resp = Resp("batches", TRUE, <<"Batch created.">>)
    /\ \E b \in 1..Len(batches) :
          /\ b > Len(SeedBatches)
          /\ BatchScans(b) = {}
          /\ batches[b].planned_input_kg = 500000
          /\ VarianceRow(b).input_qty_kg = 500000

(* C29: for every batch with at least one scan, probable_loss_process is *)
(* the stage of the scan with the largest input_qty - good_qty among the *)
(* batch's scans, the earliest of them in ascending (scan time,          *)
(* insertion order) when several tie, whatever the quantities are, also  *)
(* when good_qty exceeds input_qty.                                      *)
ProbableLossIsLargestLoss ==
    \A b \in 1..Len(batches) :
       BatchScans(b) # {} =>
          \E l \in BatchScans(b) :
             /\ VarianceRow(b).probable_loss_process = Some(logs[l].process_name)
             /\ \A k \in BatchScans(b) :
                   LET loss_l == logs[l].input_qty_kg - logs[l].good_qty_kg
                       loss_k == logs[k].input_qty_kg - logs[k].good_qty_kg
                   IN loss_k < loss_l \/ (loss_k = loss_l /\ (k = l \/ ScanBefore(l, k)))

(* C30: every transfer label connects two adjacent stages in the forward *)
(* direction: its from_process and its to_process are stages of the      *)
(* sequence and to_process is the one immediately after from_process, so *)
(* no label goes to MIXING or comes from STORE_RECEIVING.                *)
LabelsConnectAdjacentStages ==
    \A l \in 1..Len(labels) :
       /\ InFlow(labels[l].from_process)
       /\ InFlow(labels[l].to_process)
       /\ FlowIndex(labels[l].to_process) = FlowIndex(labels[l].from_process) + 1
       /\ labels[l].to_process # PROCESS_FLOW[1]
       /\ labels[l].from_process # PROCESS_FLOW[Len(PROCESS_FLOW)]

(* a scan at MIXING with MOVE_NEXT has issued a label to EXTRUDER *)
LabelsConnectAdjacentStagesWitness ==
    /\ resp.op = "scan"
    /\ \E l \in 1..Len(labels) :
          /\ labels[l].from_process = "MIXING"
          /\ labels[l].to_process = "EXTRUDER"
          /\ resp.msg = <<"Process scan recorded.", "Next process barcode issued:", labels[l].transfer_barcode>>

(* ------------------------------------------------------------------ *)
(* Frame, status domain and ordering properties                        *)
(* ------------------------------------------------------------------ *)

(* C31: the (current_process, status) of the batches is changed only by *)
(* the stage advance of a scan and by a successful receipt: a planner   *)
(* update, a job creation, the issue of a transfer label, the snapshot  *)
(* page, and every scan or receipt that fails leave all batches as they *)
(* were; a scan that succeeds changes no batch but the scanned one.     *)
BatchesChangeOnlyByStageOrReceipt ==
    /\ \A item_id \in 1..Len(items), planner_status \in {"HOLD", "COMPLETED", "SCRAP"} :
          item_tracker_detail(item_id, planner_status, NULL, ProbeNow).batches = batches
    /\ \A item_id \in 0..Len(items) :
          create_job(JobName(Len(jobs) + 1), item_id, TRUE, ProbeNow).batches = batches
    /\ \A item_id \in 1..Len(items) : item_tracker_page(item_id).batches = batches
    /\ \A ref \in ProbeRefs, process_name \in {"MIXING", "STORE_RECEIVING", "QC"}, next_action \in ActionInputs, stamp \in Stamps, usec \in Usecs :
          LET s == scan(ref, process_name, next_action, 1004, 1004, 0, ProbeNow, 0, stamp, usec)
          IN /\ ~s.resp.ok => s.batches = batches
             /\ \A b \in 1..Len(batches) : b # FindBatch(batches, ref) => s.batches[b] = batches[b]
    /\ \A code \in TransferCodes, receiving_process \in ReceiveProcesses, received_qty_kg \in RecvQtys :
          LET r == receive_next(code, receiving_process, received_qty_kg, ProbeNow)
          IN ~r.resp.ok => r.batches = batches

(* C32: the stored status of every order line is one of                 *)
(* WAITING_PLANNING, READY_FOR_PRODUCTION, JOB_CREATED, IN_PRODUCTION,  *)
(* HOLD, COMPLETED, from the creation of the line on and after every    *)
(* planner update, job creation, batch creation and scan.               *)
ItemStatusInChoices ==
    \A i \in 1..Len(items) : items[i].status \in ITEM_STATUS_CHOICES

(* the snapshot of order line i reads the scan LatestScan of its latest batch *)
SnapshotReadsLatestScan(i) ==
    (LineBatches(i) # {} /\ BatchScans(LineBatch(i)) # {}) =>
       LET b == LineBatch(i)
           lg == logs[LatestScan(b)]
       IN /\ Snapshot(i).latest_scan_time = Some(lg.scan_time)
          /\ batches[b].status # "COMPLETED" =>
                /\ Snapshot(i).current_stage = lg.process_name
                /\ (lg.next_action = "REJECTED") => Snapshot(i).status = "HOLD"
                /\ (lg.next_action # "REJECTED" /\ batches[b].status = "OPEN") => Snapshot(i).status = "IN_PRODUCTION"

(* C33: the latest scan the snapshot uses is the scan of the latest      *)
(* batch with the greatest (scan time, insertion order): a scan recorded *)
(* later with an earlier time does not become the latest, and of scans   *)
(* with equal times the one inserted last is; and every step leaves the  *)
(* process_logs and item_tracking_events rows it found as they were,     *)
(* adding rows at the end only.                                          *)
LatestScanIsGreatestPair ==
    /\ [](\A i \in 1..Len(items) : SnapshotReadsLatestScan(i))
    /\ [][/\ Len(logs') >= Len(logs) /\ SubSeq(logs', 1, Len(logs)) = logs
          /\ Len(events') >= Len(events) /\ SubSeq(events', 1, Len(events)) = events]_vars

(* a REJECTED scan, then a MOVE_NEXT scan of the same batch recorded     *)
(* with an earlier time: the REJECTED scan is still the latest one and   *)
(* the snapshot shows HOLD while the batch itself is OPEN                *)
LatestScanIsGreatestPairWitness ==
    \E i \in 1..Len(items) :
       /\ LineBatches(i) # {}
       /\ BatchScans(LineBatch(i)) # {}
       /\ logs[Len(logs)].batch_id = LineBatch(i)
       /\ logs[Len(logs)].next_action = "MOVE_NEXT"
       /\ LatestScan(LineBatch(i)) < Len(logs)
       /\ logs[Len(logs)].scan_time < logs[LatestScan(LineBatch(i))].scan_time
       /\ logs[LatestScan(LineBatch(i))].next_action = "REJECTED"
       /\ batches[LineBatch(i)].status = "OPEN"
       /\ Snapshot(i).status = "HOLD"

(* C34: a scan that succeeds on a batch whose job comes from an order   *)
(* line stores HOLD in that line if next_action was REJECTED, COMPLETED *)
(* if the batch became COMPLETED and IN_PRODUCTION otherwise, and       *)
(* appends exactly one PROCESS_SCAN event of the line with that status  *)
(* and the scanned stage; when the job comes from no order line the     *)
(* scan changes no order line and no event.                             *)
ScanProjectsLineStatus ==
    [][(resp'.op = "scan" /\ resp'.ok) =>
          LET lg == logs'[Len(logs')]
              linked == jobs[batches[lg.batch_id].job_id].source_item_id
              expected == IF lg.next_action = "REJECTED" THEN "HOLD"
                          ELSE IF batches'[lg.batch_id].status = "COMPLETED" THEN "COMPLETED"
                          ELSE "IN_PRODUCTION"
          IN IF linked = NULL
             THEN items' = items /\ events' = events
             ELSE /\ items'[linked[1]].status = expected
                  /\ Len(events') = Len(events) + 1
                  /\ SubSeq(events', 1, Len(events)) = events
                  /\ events'[Len(events')].item_id = linked[1]
                  /\ events'[Len(events')].event_type = "PROCESS_SCAN"
                  /\ events'[Len(events')].status_label = expected
                  /\ events'[Len(events')].stage_name = lg.process_name]_vars

(* the batch of the job made from order line 2 was scanned at           *)
(* STORE_RECEIVING and became COMPLETED: the line is COMPLETED and its   *)
(* last event is the PROCESS_SCAN of that stage                          *)
ScanProjectsLineStatusWitness ==
    /\ resp.op = "scan"
    /\ resp.ok
    /\ Len(batches) > Len(SeedBatches)
    /\ logs[Len(logs)].batch_id = Len(batches)
    /\ batches[Len(batches)].status = "COMPLETED"
    /\ jobs[batches[Len(batches)].job_id].source_item_id = Some(2)
    /\ items[2].status = "COMPLETED"
    /\ events[Len(events)] = Event(2, logs[Len(logs)].scan_time, "PROCESS_SCAN", "STORE_RECEIVING", "COMPLETED")

(* C35: when receive requests for one label run concurrently, their     *)
(* reads and writes interleaved, at most one of them returns success    *)
(* and at most one of them writes the label's received_qty and loss.    *)
OneReceiptUnderInterleaving ==
    \A l \in 1..Len(labels) :
       /\ Cardinality({k \in 1..Len(pending) : pending[k].label_id = l /\ pending[k].ok}) <= 1
       /\ Cardinality({k \in 1..Len(pending) : pending[k].label_id = l /\ pending[k].wrote}) <= 1

(* C36: a batch has status COMPLETED if and only if its current_process *)
(* is COMPLETED, and a batch with status HOLD has one of the seven      *)
(* stages as its current_process.                                       *)
CompletedIffAtEnd ==
    \A b \in 1..Len(batches) :
       /\ (batches[b].status = "COMPLETED") <=> (batches[b].current_process = "COMPLETED")
       /\ batches[b].status = "HOLD" => InFlow(batches[b].current_process)

(* a REJECTED scan at the last stage: the batch is on HOLD at           *)
(* STORE_RECEIVING and not COMPLETED                                     *)
CompletedIffAtEndWitness ==
    /\ resp.op = "scan"
    /\ resp.ok
    /\ logs[Len(logs)].next_action = "REJECTED"
    /\ batches[logs[Len(logs)].batch_id].status = "HOLD"
    /\ batches[logs[Len(logs)].batch_id].current_process = PROCESS_FLOW[Len(PROCESS_FLOW)]

(* C37: immediately after a scan that succeeds on the only batch of a   *)
(* job made from an order line, the stored status of the line equals    *)
(* the status the snapshot reports for the line, whatever scans came    *)
(* before and whatever scan times the requests carried.                 *)
StoredStatusMatchesSnapshot ==
    (resp.op = "scan" /\ resp.ok) =>
       LET b == logs[Len(logs)].batch_id
           linked == jobs[batches[b].job_id].source_item_id
       IN (linked # NULL /\ LineBatches(linked[1]) = {b}) =>
             items[linked[1]].status = Snapshot(linked[1]).status

(* C38: along the forward run of an order line (line, job, batch, then  *)
(* scans with MOVE_NEXT in stage order with scan times that never go    *)
(* back) the progress_pct of the line's snapshot never decreases from   *)
(* one step to the next and always lies between 5 and 100.              *)
ProgressNeverDecreases ==
    /\ [](\A i \in 1..Len(items) : Snapshot(i).progress_pct \in 5..100)
    /\ [][\A i \in 1..Len(items) : Snapshot(i)'.progress_pct >= Snapshot(i).progress_pct]_vars

(* the scans of batch b recorded by the scan handler with MOVE_NEXT at a stage before the last *)
IssuingScans(b) ==
    {l \in (Len(SeedLogs) + 1)..Len(logs) :
        /\ logs[l].batch_id = b
        /\ logs[l].next_action = "MOVE_NEXT"
        /\ InFlow(logs[l].process_name)
        /\ logs[l].process_name # PROCESS_FLOW[Len(PROCESS_FLOW)]}

BatchLabels(b) == {k \in 1..Len(labels) : labels[k].batch_id = b}

(* C39: the labels of a batch correspond one to one to the scans of the *)
(* batch recorded with MOVE_NEXT at a stage before the last: each label *)
(* has its own such scan with the label's from_process as stage and the *)
(* label's issued_qty as good quantity, and there are as many labels as *)
(* such scans.                                                          *)
LabelsMatchScans ==
    \A b \in 1..Len(batches) :
       /\ Cardinality(BatchLabels(b)) = Cardinality(IssuingScans(b))
       /\ \E f \in [BatchLabels(b) -> IssuingScans(b)] :
             /\ \A k1, k2 \in BatchLabels(b) : k1 # k2 => f[k1] # f[k2]
             /\ \A k \in BatchLabels(b) :
                   /\ logs[f[k]].process_name = labels[k].from_process
                   /\ logs[f[k]].good_qty_kg = labels[k].issued_qty_kg

(* C40: a label has status RECEIVED if and only if its received_qty is  *)
(* not null, every RECEIVED label has received_qty > 0, and every       *)
(* ISSUED label has loss 0 and no receive timestamp.                    *)
LabelFieldsAgree ==
    \A l \in 1..Len(labels) :
       /\ (labels[l].status = "RECEIVED") <=> (labels[l].received_qty_kg # NULL)
       /\ labels[l].received_qty_kg # NULL => labels[l].received_qty_kg[1] > 0
       /\ labels[l].status = "ISSUED" => (labels[l].qty_loss_kg = 0 /\ labels[l].received_at = NULL)

====
